---- MODULE Spec2Model ----
(***************************************************************************)
(* A model of matrw, a reader and writer for MATLAB MAT-files (format v7). *)
(* The module holds several specifications over one set of variables:      *)
(*   SpecName    the container MatFile and its insert operation            *)
(*   SpecIO      save_matfile_v7 followed by load_matfile                  *)
(*   SpecNested  NumericArray::from_nested_matvar and indexing             *)
(*   SpecSparse  NumericArray::to_sparse and indexing of the sparse array  *)
(***************************************************************************)
EXTENDS Integers, Sequences, FiniteSets, TLC

VARIABLES
    matfile,   \* MatFile.data: the ordered map name -> MatVariable, a sequence of entries
    file,      \* the MAT-file on disk: Option of the sequence of top-level data elements
    loaded,    \* the outcome of the last load_matfile
    input,     \* the arguments handed to the constructor under study
    var,       \* the MatVariable the program holds after construction
    result,    \* the outcome of the last operation
    pc         \* "run", or "aborted" once an operation has panicked

vars == <<matfile, file, loaded, input, var, result, pc>>

(***************************************************************************)
(* Option<T> is a sequence of length at most one.                          *)
(***************************************************************************)
None == <<>>

Some(x) == <<x>>

is_some(o) == o # <<>>

Range(s) == {s[i] : i \in 1..Len(s)}

RECURSIVE Product(_)
Product(dim) == IF dim = <<>> THEN 1 ELSE Head(dim) * Product(Tail(dim))

Rep(c, n) == [i \in 1..n |-> c]

(***************************************************************************)
(* Characters of names.  A name is a sequence of characters; a character   *)
(* is a one-letter string, or "U+xxxx" for a character outside ASCII.      *)
(***************************************************************************)
AsciiLower == {"a","b","c","d","e","f","g","h","i","j","k","l","m",
               "n","o","p","q","r","s","t","u","v","w","x","y","z"}

AsciiUpper == {"A","B","C","D","E","F","G","H","I","J","K","L","M",
               "N","O","P","Q","R","S","T","U","V","W","X","Y","Z"}

AsciiDigit == {"0","1","2","3","4","5","6","7","8","9"}

is_ascii_alphabetic(c) == c \in AsciiLower \cup AsciiUpper

is_ascii_alphanumeric(c) == is_ascii_alphabetic(c) \/ c \in AsciiDigit

\* The number of bytes of the character in UTF-8 (char::len_utf8).
len_utf8(c) ==
    CASE c = "U+00E9"  -> 2
      [] c = "U+1F600" -> 4
      [] OTHER         -> 1

\* The number of bytes of the first n characters of the name.
RECURSIVE utf8_bytes(_, _)
utf8_bytes(name, n) == IF n = 0 THEN 0 ELSE len_utf8(name[n]) + utf8_bytes(name, n - 1)

\* str::len: the length of the name in bytes.
str_len(name) == utf8_bytes(name, Len(name))

MATLABKEYWORDS == {
    <<"b","r","e","a","k">>,
    <<"c","a","s","e">>,
    <<"c","a","t","c","h">>,
    <<"c","l","a","s","s","d","e","f">>,
    <<"c","o","n","t","i","n","u","e">>,
    <<"e","l","s","e">>,
    <<"e","l","s","e","i","f">>,
    <<"e","n","d">>,
    <<"f","o","r">>,
    <<"f","u","n","c","t","i","o","n">>,
    <<"g","l","o","b","a","l">>,
    <<"i","f">>,
    <<"o","t","h","e","r","w","i","s","e">>,
    <<"p","a","r","f","o","r">>,
    <<"p","e","r","s","i","s","t","e","n","t">>,
    <<"r","e","t","u","r","n">>,
    <<"s","p","m","d">>,
    <<"s","w","i","t","c","h">>,
    <<"t","r","y">>,
    <<"w","h","i","l","e">> }

\* The longest name, in bytes, that is_valid_variable_name accepts.
NAME_LEN_MAX == 63

\* is_valid_variable_name without the test against the keyword list.
is_valid_variable_name_no_keywords(name) ==
    /\ name # <<>>
    /\ is_ascii_alphabetic(name[1])
    /\ \A i \in 1..Len(name) : is_ascii_alphanumeric(name[i]) \/ name[i] = "_"
    /\ str_len(name) <= NAME_LEN_MAX

is_valid_variable_name(name) ==
    IF name = <<>> THEN FALSE
    ELSE IF name \in MATLABKEYWORDS THEN FALSE
    ELSE LET ok_first   == is_ascii_alphabetic(name[1])
             ok_symbols == \A i \in 1..Len(name) :
                               is_ascii_alphanumeric(name[i]) \/ name[i] = "_"
             ok_len     == str_len(name) <= NAME_LEN_MAX
         IN  ok_first /\ ok_symbols /\ ok_len

(***************************************************************************)
(* Numbers.  A number is hi * 2^16 + lo + fr/2 with 0 <= lo < 2^16 and     *)
(* fr \in {0,1}: two limbs, so that the 32-bit limits of the writer's      *)
(* downcast are exact, and a half, so that fract() is observable.          *)
(***************************************************************************)
LIMB == 256 * 256

NumOf(hi, lo, fr) == [hi |-> hi, lo |-> lo, fr |-> fr]

\* The number of the integer i, for i within TLC's integers.
IntNum(i) == NumOf(IF i >= 0 THEN i \div LIMB ELSE -((-i + LIMB - 1) \div LIMB),
                   i % LIMB, 0)

Zero == IntNum(0)

num_lt(a, b) ==
    \/ a.hi < b.hi
    \/ a.hi = b.hi /\ a.lo < b.lo
    \/ a.hi = b.hi /\ a.lo = b.lo /\ a.fr < b.fr

num_gt(a, b) == num_lt(b, a)

\* f64::fract() != 0.0
has_fract(e) == e.fr # 0

(***************************************************************************)
(* MatlabType: a typed element buffer, [kind, items].  Elements of every   *)
(* kind are numbers: a bool is 0 or 1, a char is its code point.           *)
(***************************************************************************)
MatlabKinds == {"U8","I8","U16","I16","U32","I32","U64","I64","F32","F64",
                "UTF8","UTF16","BOOL"}

MatlabType(kind, items) == [kind |-> kind, items |-> items]

\* MatlabType::new(): the empty f64 buffer.
MatlabType_new == MatlabType("F64", <<>>)

\* MatlabType::len
type_len(value) == Len(value.items)

(***************************************************************************)
(* Result<T, MatrwError> and the outcome of a call that may panic.         *)
(***************************************************************************)
Ok(x) == [tag |-> "Ok", val |-> x]

Err(e) == [tag |-> "Err", err |-> e]

Panic(msg) == [tag |-> "Panic", msg |-> msg]

is_ok(r) == r.tag = "Ok"

\* Result::expect: the value, or a panic with the message.
expect(r, msg) == IF is_ok(r) THEN r ELSE Panic(msg)

(***************************************************************************)
(* MatVariable and NumericArray.                                           *)
(***************************************************************************)
Null == [variant |-> "Null"]

NumericArray(dim, value, value_cmp) ==
    [variant |-> "NumericArray", dim |-> dim, value |-> value, value_cmp |-> value_cmp]

\* NumericArray::new
NumericArray_new(dim, value, value_cmp) ==
    IF dim # <<>> /\ Product(dim) # type_len(value)
    THEN Err("TypeConstruction")
    ELSE Ok(NumericArray(IF dim = <<>> \/ Len(dim) = 1
                         THEN <<1, type_len(value)>>
                         ELSE dim,
                         value, value_cmp))

\* NumericArray::is_complex
is_complex(a) == is_some(a.value_cmp)

(***************************************************************************)
(* MatFile: the container.  data is an IndexMap, modelled as the sequence  *)
(* of its entries in insertion order, keys unique.                         *)
(***************************************************************************)
Entry(name, value) == [name |-> name, value |-> value]

\* IndexMap::get_index_of, 0 when the key is absent.
get_index_of(data, name) ==
    IF \E i \in 1..Len(data) : data[i].name = name
    THEN CHOOSE i \in 1..Len(data) : data[i].name = name
    ELSE 0

\* IndexMap::insert: a present key keeps its place and takes the new value.
indexmap_insert(data, name, value) ==
    LET i == get_index_of(data, name)
    IN  IF i = 0 THEN Append(data, Entry(name, value))
        ELSE [data EXCEPT ![i] = Entry(name, value)]

\* IndexMap::shift_remove: the entries after the removed one move up.
shift_remove(data, name) ==
    LET i == get_index_of(data, name)
    IN  IF i = 0 THEN data
        ELSE SubSeq(data, 1, i - 1) \o SubSeq(data, i + 1, Len(data))

\* An insert that hands an invalid name back as MatrwError::AccessError.
insert_access_error(data, name, value) ==
    IF ~is_valid_variable_name(name)
    THEN [tag |-> "Err", err |-> "AccessError", data |-> data]
    ELSE [tag |-> "Return", data |-> indexmap_insert(data, name, value)]

\* MatFile::insert: the outcome and the container after the call.
insert(data, name, value) ==
    IF ~is_valid_variable_name(name)
    THEN [tag |-> "Panic", msg |-> "Invalid variable name", data |-> data]
    ELSE [tag |-> "Return", data |-> indexmap_insert(data, name, value)]

\* MatFile::contains
contains(data, name) == get_index_of(data, name) # 0

\* Index<&str> for MatFile
matfile_index(data, name) ==
    IF contains(data, name) THEN data[get_index_of(data, name)].value ELSE Null

\* MatFile::take: the Option returned and the container after the call.
take(data, name) ==
    [ret  |-> IF contains(data, name) THEN Some(matfile_index(data, name)) ELSE None,
     data |-> shift_remove(data, name)]

(***************************************************************************)
(* The primitive types of the codec.  Each integer type is known by its    *)
(* width in bits and whether it is signed.                                 *)
(***************************************************************************)
IntTypes == {"u8", "i8", "u16", "i16", "u32", "i32", "u64", "i64"}

bits_of(T) ==
    CASE T \in {"u8", "i8"}          -> 8
      [] T \in {"u16", "i16"}        -> 16
      [] T \in {"u32", "i32", "f32"} -> 32
      [] OTHER                       -> 64

is_signed(T) == T \in {"i8", "i16", "i32", "i64"}

\* T::MIN and T::MAX of the integer types of at most 32 bits, as numbers.
int_min(T) ==
    CASE T = "i8"  -> IntNum(-128)
      [] T = "i16" -> IntNum(-32768)
      [] T = "i32" -> NumOf(-32768, 0, 0)
      [] OTHER     -> Zero

int_max(T) ==
    CASE T = "u8"  -> IntNum(255)
      [] T = "i8"  -> IntNum(127)
      [] T = "u16" -> IntNum(65535)
      [] T = "i16" -> IntNum(32767)
      [] T = "u32" -> NumOf(65535, 65535, 0)
      [] T = "i32" -> NumOf(32767, 65535, 0)
      [] OTHER     -> NumOf(32767 * LIMB, 65535, 0)

\* f64::trunc: the integer part, rounded toward zero.
trunc(x) ==
    IF x.fr = 0 THEN x
    ELSE IF x.hi >= 0 THEN NumOf(x.hi, x.lo, 0)
    ELSE IF x.lo = LIMB - 1 THEN NumOf(x.hi + 1, 0, 0)
    ELSE NumOf(x.hi, x.lo + 1, 0)

\* `x as T` for a float x and an integer type T: truncate, then saturate.
float_as_int(T, x) ==
    LET saturate(t) == IF num_lt(t, int_min(T)) THEN int_min(T)
                       ELSE IF num_gt(t, int_max(T)) THEN int_max(T)
                       ELSE t
    IN  saturate(trunc(x))

\* `x as T` for an integer x and an integer type T: keep the low bits_of(T)
\* bits, read in two's complement when T is signed.  (A negative x cast to
\* u64 leaves the two limbs; the model draws no such cast.)
int_as_int(T, x) ==
    CASE bits_of(T) = 8 ->
            LET v == x.lo % 256
            IN  IntNum(IF is_signed(T) /\ v >= 128 THEN v - 256 ELSE v)
      [] bits_of(T) = 16 ->
            IntNum(IF is_signed(T) /\ x.lo >= 32768 THEN x.lo - LIMB ELSE x.lo)
      [] bits_of(T) = 32 ->
            LET h == x.hi % LIMB
            IN  NumOf(IF is_signed(T) /\ h >= 32768 THEN h - LIMB ELSE h, x.lo, 0)
      [] OTHER -> NumOf(x.hi, x.lo, 0)

\* `x as T`, from the type S of x.
as_cast(S, T, x) ==
    IF T \in {"f32", "f64"} THEN x
    ELSE IF S \in {"f32", "f64"} THEN float_as_int(T, x)
    ELSE int_as_int(T, x)

\* char::is_ascii, a char being its code point.
is_ascii(c) == c.hi = 0 /\ c.lo < 128

(***************************************************************************)
(* The value block of a numeric array (ArrayData): its framing, the wire   *)
(* data type, the size of the data in bytes and the typed values.          *)
(***************************************************************************)
ArrayData(framing, data_type, data_size, v, items) ==
    [framing |-> framing, data_type |-> data_type, data_size |-> data_size,
     value |-> [var |-> v, items |-> items]]

framing_of(is_normal) == IF is_normal THEN "DataNormal" ELSE "DataSmall"

\* The arguments of impl_ArrayDataNew! for the integer types.
ArrayDataNewArgs ==
    [u8  |-> [t2 |-> "MiUINT8",  t3 |-> "U8",  size |-> 1, t4 |-> 4],
     i8  |-> [t2 |-> "MiINT8",   t3 |-> "I8",  size |-> 1, t4 |-> 4],
     u16 |-> [t2 |-> "MiUINT16", t3 |-> "U16", size |-> 2, t4 |-> 2],
     i16 |-> [t2 |-> "MiINT16",  t3 |-> "I16", size |-> 2, t4 |-> 2],
     u32 |-> [t2 |-> "MiUINT32", t3 |-> "U32", size |-> 4, t4 |-> 1],
     i32 |-> [t2 |-> "MiINT32",  t3 |-> "I32", size |-> 4, t4 |-> 1],
     u64 |-> [t2 |-> "MiUINT64", t3 |-> "U64", size |-> 8, t4 |-> 0],
     i64 |-> [t2 |-> "MiINT64",  t3 |-> "I64", size |-> 8, t4 |-> 0]]

ArrayData_new_int(T, value) ==
    LET a == ArrayDataNewArgs[T]
        nelem == Len(value)
    IN  ArrayData(framing_of(nelem > a.t4), a.t2, a.size * nelem, a.t3, value)

\* The integer types an f64 array is tried against, in the order of the
\* if-chain that picks the wire type.
DowncastOrder == <<"u8", "i8", "u16", "i16", "u32", "i32">>

\* The loop over the elements of an f64 array: can_be[T] after the elements
\* from index i on have been looked at.
RECURSIVE can_be_loop(_, _, _)
can_be_loop(value, i, can_be) ==
    IF i > Len(value) THEN can_be
    ELSE IF has_fract(value[i]) THEN [T \in Range(DowncastOrder) |-> FALSE]
    ELSE LET continue(next) ==
                 IF \A T \in Range(DowncastOrder) : ~next[T] THEN next
                 ELSE can_be_loop(value, i + 1, next)
         IN  continue([T \in Range(DowncastOrder) |->
                          can_be[T] /\ ~(num_lt(value[i], int_min(T))
                                         \/ num_gt(value[i], int_max(T)))])

\* The first type of the if-chain that can hold every element; 0 if none.
RECURSIVE first_can_be(_, _)
first_can_be(can_be, k) ==
    IF k > Len(DowncastOrder) THEN 0
    ELSE IF can_be[DowncastOrder[k]] THEN k
    ELSE first_can_be(can_be, k + 1)

ArrayData_new_f64(value) ==
    LET nelem == Len(value)
        a(k) == ArrayDataNewArgs[DowncastOrder[k]]
        wrapped(k) ==
            IF k # 0
            THEN ArrayData(framing_of(nelem > a(k).t4), a(k).t2, a(k).size * nelem, a(k).t3,
                           [i \in 1..nelem |-> float_as_int(DowncastOrder[k], value[i])])
            ELSE ArrayData(framing_of(nelem > 0), "MiDOUBLE", 8 * nelem, "F64", value)
    IN  wrapped(first_can_be(can_be_loop(value, 1, [T \in Range(DowncastOrder) |-> TRUE]), 1))

ArrayData_new_f32(value) ==
    LET nelem == Len(value)
    IN  ArrayData(framing_of(nelem > 1), "MiSINGLE", 4 * nelem, "F32", value)

ArrayData_new_bool(value) ==
    LET nelem == Len(value)
    IN  ArrayData(framing_of(nelem > 4), "MiUINT8", nelem, "BOOL", value)

ArrayData_new_char(value) ==
    LET wrapped(v) == ArrayData(framing_of(Len(v) > 4), "MiUTF8", Len(v), "UTF8", v)
    IN  wrapped(SelectSeq(value, is_ascii))

\* ArrayData::new for a vector of the Rust type T.
ArrayData_new(T, value) ==
    CASE T \in IntTypes -> ArrayData_new_int(T, value)
      [] T = "f32"      -> ArrayData_new_f32(value)
      [] T = "f64"      -> ArrayData_new_f64(value)
      [] T = "bool"     -> ArrayData_new_bool(value)
      [] T = "char"     -> ArrayData_new_char(value)

(***************************************************************************)
(* The parser's numeric array (NumericArray7) and its conversion from the  *)
(* interface's NumericArray.                                               *)
(***************************************************************************)
\* The array class that NumericArrayNew<T> writes into the flags.
class_of(T) ==
    CASE T = "u8"   -> "MxUINT8CLASS"
      [] T = "i8"   -> "MxINT8CLASS"
      [] T = "u16"  -> "MxUINT16CLASS"
      [] T = "i16"  -> "MxINT16CLASS"
      [] T = "u32"  -> "MxUINT32CLASS"
      [] T = "i32"  -> "MxINT32CLASS"
      [] T = "u64"  -> "MxUINT64CLASS"
      [] T = "i64"  -> "MxINT64CLASS"
      [] T = "f32"  -> "MxSINGLECLASS"
      [] T = "f64"  -> "MxDOUBLECLASS"
      [] T = "char" -> "MxCHARCLASS"
      [] T = "bool" -> "MxUINT8CLASS"

ArrayFlagBits_new(is_cmp, is_global, is_logical) ==
    [is_complex |-> is_cmp, is_global |-> is_global, is_logical |-> is_logical]

ArrayProps_new(array_class, array_flags, nzmax) ==
    [array_class |-> array_class, array_flags |-> array_flags, nzmax |-> nzmax]

ArrayDimensions_new(dim) ==
    [form |-> IF Len(dim) <= 1 THEN "Small" ELSE "Normal", dim |-> dim]

ArrayName_new(name) ==
    LET nelem == str_len(name)
    IN  [form |-> IF nelem = 0 THEN "Empty" ELSE IF nelem < 5 THEN "Small" ELSE "Normal",
         chars |-> name]

ArrayName_name(n) == IF n.form = "Empty" THEN <<>> ELSE n.chars

NumericArray7_new(T, dim, value, value_cmp) ==
    [variant    |-> "Numeric",
     data_type  |-> "MiMATRIX",
     props      |-> ArrayProps_new(class_of(T),
                                   ArrayFlagBits_new(is_some(value_cmp), FALSE, T = "bool"), 0),
     dimensions |-> ArrayDimensions_new(dim),
     name       |-> ArrayName_new(<<>>),
     value      |-> ArrayData_new(T, value),
     value_cmp  |-> IF is_some(value_cmp) THEN Some(ArrayData_new(T, value_cmp[1])) ELSE None]

\* MatlabType::is_empty
is_empty(value) == value.items = <<>>

\* The 10 numeric kinds and the Rust type whose MatlabTypeMarker maps to
\* each kind.  char maps to UTF8 only: no Rust type maps to UTF16.
NumericKinds == {"U8", "I8", "U16", "I16", "U32", "I32", "U64", "I64", "F32", "F64"}

marker_type(kind) ==
    CASE kind = "U8"   -> "u8"
      [] kind = "I8"   -> "i8"
      [] kind = "U16"  -> "u16"
      [] kind = "I16"  -> "i16"
      [] kind = "U32"  -> "u32"
      [] kind = "I32"  -> "i32"
      [] kind = "U64"  -> "u64"
      [] kind = "I64"  -> "i64"
      [] kind = "F32"  -> "f32"
      [] kind = "F64"  -> "f64"
      [] kind = "UTF8" -> "char"
      [] kind = "BOOL" -> "bool"
      [] OTHER         -> "none"

\* MatlabType::inner::<T>(): the items if the kind is the one T maps to.
inner(value, T) == IF marker_type(value.kind) = T THEN Some(value.items) ELSE None

\* impl From<NumericArray> for NumericArray7.  The result is Ok(array) or the
\* panic the conversion ends in.
NumericArray7_from(a) ==
    IF is_empty(a.value) THEN Ok(NumericArray7_new("u8", a.dim, <<>>, None))
    ELSE LET kind == a.value.kind
         IN  CASE kind \in NumericKinds /\ is_complex(a) ->
                    LET T == marker_type(kind)
                        cmp == inner(a.value_cmp[1], T)
                    IN  IF is_some(cmp)
                        THEN Ok(NumericArray7_new(T, a.dim, a.value.items, cmp))
                        ELSE Panic("called Option::unwrap() on a None value")
               [] kind \in NumericKinds /\ ~is_complex(a) ->
                    Ok(NumericArray7_new(marker_type(kind), a.dim, a.value.items, None))
               [] kind \in {"UTF8", "UTF16"} /\ ~is_complex(a) ->
                    LET v == inner(a.value, "char")
                    IN  IF is_some(v)
                        THEN Ok(NumericArray7_new("char", a.dim, v[1], None))
                        ELSE Panic("called Option::unwrap() on a None value")
               [] kind = "BOOL" /\ ~is_complex(a) ->
                    Ok(NumericArray7_new("bool", a.dim, a.value.items, None))
               [] OTHER -> Panic("not implemented")

NumericArray7_set_name(a, name) == [a EXCEPT !.name = ArrayName_new(name)]

(***************************************************************************)
(* The bytes of a value block.  A written block keeps its framing, its     *)
(* data type and data size, and the raw items with the width in bytes they *)
(* were written with.  The model reads back blocks whose items have the    *)
(* width of the block's data type, which is what every writer produces.    *)
(***************************************************************************)
\* size_of of the items of a raw variant (ArrayDataValueVarRaw)
raw_size(v) ==
    CASE v \in {"U8", "I8", "UTF8"}     -> 1
      [] v \in {"U16", "I16", "UTF16"}  -> 2
      [] v \in {"U32", "I32", "F32"}    -> 4
      [] OTHER                          -> 8

\* char::to_string().into_bytes(): the UTF-8 encoding of a code point.
utf8_encode(c) ==
    LET v == c.hi * LIMB + c.lo
    IN  IF v < 128 THEN <<IntNum(v)>>
        ELSE IF v < 2048 THEN <<IntNum(192 + v \div 64), IntNum(128 + (v % 64))>>
        ELSE IF v < LIMB
        THEN <<IntNum(224 + v \div 4096), IntNum(128 + ((v \div 64) % 64)), IntNum(128 + (v % 64))>>
        ELSE <<IntNum(240 + v \div 262144), IntNum(128 + ((v \div 4096) % 64)),
               IntNum(128 + ((v \div 64) % 64)), IntNum(128 + (v % 64))>>

\* v.iter().flat_map(|c| c.to_string().into_bytes())
RECURSIVE into_bytes(_)
into_bytes(chars) ==
    IF chars = <<>> THEN <<>> ELSE utf8_encode(Head(chars)) \o into_bytes(Tail(chars))

\* write_array_data: the raw variant a typed value is written as.
write_array_data(value) ==
    CASE value.var = "UTF8"  -> [var |-> "U8", items |-> into_bytes(value.items)]
      [] value.var = "UTF16" -> [var |-> "U16", items |-> into_bytes(value.items)]
      [] value.var = "BOOL"  -> [var |-> "U8", items |-> value.items]
      [] OTHER               -> value

ArrayData_write(d) ==
    LET written(raw) ==
            [framing |-> d.framing, data_type |-> d.data_type, data_size |-> d.data_size,
             width |-> raw_size(raw.var), items |-> raw.items]
    IN  written(write_array_data(d.value))

\* The raw variant whose pre_assert accepts the data type.
raw_variant(data_type) ==
    CASE data_type = "MiUINT8"  -> "U8"
      [] data_type = "MiINT8"   -> "I8"
      [] data_type = "MiUINT16" -> "U16"
      [] data_type = "MiINT16"  -> "I16"
      [] data_type = "MiUINT32" -> "U32"
      [] data_type = "MiINT32"  -> "I32"
      [] data_type = "MiUINT64" -> "U64"
      [] data_type = "MiINT64"  -> "I64"
      [] data_type = "MiSINGLE" -> "F32"
      [] data_type = "MiDOUBLE" -> "F64"
      [] data_type = "MiUTF8"   -> "UTF8"
      [] data_type = "MiUTF16"  -> "UTF16"
      [] OTHER                  -> "none"

\* Reading ArrayDataValueVarRaw: data_size / size_of items of the variant
\* that the data type selects.
ArrayDataValueVarRaw_read(block) ==
    LET v == raw_variant(block.data_type)
        count == block.data_size \div raw_size(v)
    IN  IF v = "none" THEN Err("NoVariantMatch")
        ELSE IF block.width # raw_size(v) \/ count > Len(block.items) THEN Err("Io")
        ELSE Ok([var |-> v, items |-> SubSeq(block.items, 1, count)])

\* The numeric array class and the type of its elements.
class_type(array_class) ==
    CASE array_class = "MxUINT8CLASS"  -> "u8"
      [] array_class = "MxINT8CLASS"   -> "i8"
      [] array_class = "MxUINT16CLASS" -> "u16"
      [] array_class = "MxINT16CLASS"  -> "i16"
      [] array_class = "MxUINT32CLASS" -> "u32"
      [] array_class = "MxINT32CLASS"  -> "i32"
      [] array_class = "MxUINT64CLASS" -> "u64"
      [] array_class = "MxINT64CLASS"  -> "i64"
      [] array_class = "MxSINGLECLASS" -> "f32"
      [] array_class = "MxDOUBLECLASS" -> "f64"
      [] OTHER                         -> "none"

\* The variant of the items of a Rust numeric type.
type_variant(T) == CHOOSE k \in NumericKinds : marker_type(k) = T

\* String::from_utf8(v).unwrap().chars() on bytes that are all ASCII; a
\* byte above 127 starts a multi-byte sequence, which no writer of the model
\* emits (ArrayData::new drops the chars that are not ASCII).
from_utf8(bytes) ==
    IF \A i \in 1..Len(bytes) : is_ascii(bytes[i])
    THEN Ok(bytes)
    ELSE Panic("called Result::unwrap() on an Err value: FromUtf8Error")

\* String::from_utf16(&v).unwrap().chars() on units outside the surrogate
\* range.
from_utf16(units) ==
    IF \A i \in 1..Len(units) : units[i].lo < 55296 \/ units[i].lo > 57343
    THEN Ok(units)
    ELSE Panic("called Result::unwrap() on an Err value: FromUtf16Error")

\* parse_array_data: the typed value of a raw value under an array class.
parse_array_data(raw, arr_type, is_logical) ==
    LET chars(r, v) == IF is_ok(r) THEN Ok([var |-> v, items |-> r.val]) ELSE r
    IN  CASE raw.var \in NumericKinds /\ class_type(arr_type) # "none" ->
                IF raw.var = "U8" /\ arr_type = "MxUINT8CLASS" /\ is_logical
                THEN Ok([var |-> "BOOL",
                         items |-> [i \in 1..Len(raw.items) |->
                                       IF raw.items[i] # Zero THEN IntNum(1) ELSE Zero]])
                ELSE Ok([var |-> type_variant(class_type(arr_type)),
                         items |-> [i \in 1..Len(raw.items) |->
                                       as_cast(marker_type(raw.var), class_type(arr_type),
                                               raw.items[i])]])
          [] raw.var = "UTF8" /\ arr_type = "MxCHARCLASS" -> chars(from_utf8(raw.items), "UTF8")
          [] raw.var = "UTF16" /\ arr_type = "MxCHARCLASS" -> chars(from_utf16(raw.items), "UTF16")
          [] OTHER -> Err("NoVariantMatch")

\* Reading ArrayData: DataNormal is tried first and needs the two bytes
\* after the type to be 0, which they are in a small block of size 0.
ArrayData_read(block, arr_type, is_logical) ==
    LET typed(r) ==
            IF ~is_ok(r) THEN r
            ELSE Ok(ArrayData(framing_of(block.framing = "DataNormal" \/ block.data_size = 0),
                              block.data_type, block.data_size, r.val.var, r.val.items))
        parsed(raw) ==
            IF ~is_ok(raw) THEN raw ELSE typed(parse_array_data(raw.val, arr_type, is_logical))
    IN  parsed(ArrayDataValueVarRaw_read(block))

(***************************************************************************)
(* The field-name table of a structure on the wire (ArrayFieldNames): the  *)
(* stride of the names, the size of the name block and the names, each     *)
(* padded with NUL bytes to the stride.                                    *)
(***************************************************************************)
NUL == "NUL"

\* The largest of a sequence of natural numbers (Iterator::max), 0 if empty.
RECURSIVE seq_max(_)
seq_max(s) ==
    LET larger(a, b) == IF a > b THEN a ELSE b
    IN  IF s = <<>> THEN 0 ELSE larger(Head(s), seq_max(Tail(s)))

\* name_str.chars().filter(|c| c.is_ascii()), truncated to 63 characters
ascii_truncated(name) ==
    LET kept == SelectSeq(name, LAMBDA c : len_utf8(c) = 1)
    IN  IF Len(kept) > 63 THEN SubSeq(kept, 1, 63) ELSE kept

\* A table whose stride is the longest name and its terminator, whatever
\* the number of fields.
ArrayFieldNames_new_no_minimum(field_names) ==
    LET n == Len(field_names)
        longest == seq_max([i \in 1..n |-> str_len(field_names[i])]) + 1
        max_length == IF longest > 63 THEN 64 ELSE longest
    IN  [data_type_length |-> "MiINT32", data_size_length |-> 4, length |-> max_length,
         data_type |-> "MiINT8", data_size |-> max_length * n, field_number |-> n,
         field_names |-> [i \in 1..n |->
             ascii_truncated(field_names[i])
                 \o Rep(NUL, max_length - Len(ascii_truncated(field_names[i])))]]

\* ArrayFieldNames::new
ArrayFieldNames_new(field_names) ==
    LET n == Len(field_names)
        longest == seq_max([i \in 1..n |-> str_len(field_names[i])]) + 1
        capped == IF longest > 63 THEN 64 ELSE longest
        one == IF n = 1 /\ capped < 5 THEN 5 ELSE capped
        max_length == IF n = 2 /\ one < 3 THEN 3 ELSE one
    IN  IF n # 0
        THEN [data_type_length |-> "MiINT32", data_size_length |-> 4, length |-> max_length,
              data_type |-> "MiINT8", data_size |-> max_length * n, field_number |-> n,
              field_names |-> [i \in 1..n |->
                  ascii_truncated(field_names[i])
                      \o Rep(NUL, max_length - Len(ascii_truncated(field_names[i])))]]
        ELSE [data_type_length |-> "MiINT32", data_size_length |-> 4, length |-> 1,
              data_type |-> "MiINT8", data_size |-> 0, field_number |-> 0,
              field_names |-> <<>>]

\* MatVariable::Structure(Structure { value })
Structure(value) == [variant |-> "Structure", value |-> value]

\* MatVariable::StructureArray(StructureArray { dim, fieldnames, value })
StructureArray(dim, names, value) ==
    [variant |-> "StructureArray", dim |-> dim, fieldnames |-> names, value |-> value]

\* The inserts of the rules (@structure ...), in the order of the keys.
RECURSIVE structure_inserts(_, _, _)
structure_inserts(map, keys, values) ==
    IF keys = <<>> THEN map
    ELSE structure_inserts(indexmap_insert(map, Head(keys), Head(values)),
                           Tail(keys), Tail(values))

\* The sequences of a sequence one after the other (Vec::concat).
RECURSIVE concat(_)
concat(seqs) == IF seqs = <<>> THEN <<>> ELSE Head(seqs) \o concat(Tail(seqs))

\* StructureArray::new.  With no dimension the count of the values is not
\* checked: the loop that takes one value for each field name never ends
\* when there is no field name, and unwraps a value that is not there when
\* the values run out inside a structure.
StructureArray_new(dim, names, value) ==
    LET n == Len(names)
    IN  IF dim # <<>> /\ Product(dim) * n # Len(value) THEN Err("TypeConstruction")
        ELSE IF value = <<>> THEN Ok(StructureArray(dim, names, <<>>))
        ELSE IF n = 0 THEN [tag |-> "Loop"]
        ELSE IF (Len(value) % n) # 0
        THEN Panic("called Option::unwrap() on a None value")
        ELSE Ok(StructureArray(dim, names,
                    [k \in 1..(Len(value) \div n) |->
                        Structure(structure_inserts(<<>>, names,
                                      SubSeq(value, (k - 1) * n + 1, k * n)))]))

\* The derived BinWrite of ArrayFieldNames: field_number is not written,
\* the names follow each other.
ArrayFieldNames_write(t) ==
    [data_type_length |-> t.data_type_length, data_size_length |-> t.data_size_length,
     length |-> t.length, data_type |-> t.data_type, data_size |-> t.data_size,
     bytes |-> concat(t.field_names)]

\* The derived BinRead of ArrayFieldNames with parse_fieldnames.  bytes is
\* what the file holds from the start of the name block on.
ArrayFieldNames_read(w) ==
    LET field_number == w.data_size \div w.length
    IN  IF w.data_type_length # "MiINT32" \/ w.data_size_length # 4
           \/ w.length > 64 \/ w.data_type # "MiINT8"
        THEN Err("AssertFail")
        ELSE IF w.length = 0 THEN Panic("attempt to divide by zero")
        ELSE IF Len(w.bytes) < field_number * w.length
        THEN Panic("called Result::unwrap() on an Err value")
        ELSE Ok([data_type_length |-> w.data_type_length,
                 data_size_length |-> w.data_size_length,
                 length |-> w.length, data_type |-> w.data_type,
                 data_size |-> w.data_size, field_number |-> field_number,
                 field_names |-> [i \in 1..field_number |->
                     SubSeq(w.bytes, (i - 1) * w.length + 1, i * w.length)]])

\* str::trim_matches(char::from(0))
RECURSIVE trim_matches(_)
trim_matches(bytes) ==
    IF bytes = <<>> THEN <<>>
    ELSE IF Head(bytes) = NUL THEN trim_matches(Tail(bytes))
    ELSE IF bytes[Len(bytes)] = NUL THEN trim_matches(SubSeq(bytes, 1, Len(bytes) - 1))
    ELSE bytes

\* ArrayFieldNames::fieldnames
ArrayFieldNames_fieldnames(t) ==
    [i \in 1..Len(t.field_names) |-> trim_matches(t.field_names[i])]

\* Structure7::new
Structure7_new(field_strings, value) ==
    [variant |-> "Structure", data_type |-> "MiMATRIX",
     props |-> ArrayProps_new("MxSTRUCTCLASS", ArrayFlagBits_new(FALSE, FALSE, FALSE), 0),
     dimensions |-> ArrayDimensions_new(<<1, 1>>), name |-> ArrayName_new(<<>>),
     fieldnames |-> ArrayFieldNames_new(field_strings), value |-> value]

\* The structure array on the wire: the element of a structure with the
\* dimensions of the array and the fields of every cell in turn.
StructureArray7_new(dim, field_strings, value) ==
    [variant |-> "StructureArray", data_type |-> "MiMATRIX",
     props |-> ArrayProps_new("MxSTRUCTCLASS", ArrayFlagBits_new(FALSE, FALSE, FALSE), 0),
     dimensions |-> ArrayDimensions_new(dim), name |-> ArrayName_new(<<>>),
     fieldnames |-> ArrayFieldNames_new(field_strings), value |-> value]

\* The first result that is not Ok, or Ok of the values of all.
collect(rs) ==
    IF \A i \in 1..Len(rs) : is_ok(rs[i])
    THEN Ok([i \in 1..Len(rs) |-> rs[i].val])
    ELSE rs[CHOOSE i \in 1..Len(rs) : ~is_ok(rs[i]) /\ \A j \in 1..(i - 1) : is_ok(rs[j])]

(***************************************************************************)
(* Variables on the wire.  A written numeric variable is the record of its *)
(* sub-elements; a written compressed variable holds the deflated bytes of *)
(* the variable inside, which inflating gives back.                        *)
(***************************************************************************)
Unsupported == [variant |-> "Unsupported"]

\* MatVariable::Compressed(CompressedArray { value })
Compressed(value) == [variant |-> "Compressed", value |-> value]

CompressedArray7_new(value) ==
    [variant |-> "Compressed", data_type |-> "MiCOMPRESSED", num_bytes |-> 0, value |-> value]

Empty7 == [variant |-> "Empty", data_type |-> "MiMATRIX"]

\* ArrayDataSparse::new for a vector of f64 or of bool.
ArrayDataSparse_new(T, value) ==
    LET nelem == Len(value)
    IN  IF T = "f64" THEN ArrayData("DataNormal", "MiDOUBLE", 8 * nelem, "F64", value)
        ELSE ArrayData(framing_of(nelem > 4), "MiUINT8", nelem, "BOOL", value)

\* SparseArray7::new (impl_SparseArrayNew! and the impl for bool)
SparseArray7_new(T, name, dim, dim_ir, dim_jc, value, value_cmp) ==
    [variant    |-> "Sparse",
     data_type  |-> "MiMATRIX",
     props      |-> ArrayProps_new("MxSPARSECLASS",
                                   ArrayFlagBits_new(is_some(value_cmp), FALSE, T = "bool"),
                                   IF value # <<>> THEN Len(value) ELSE 1),
     dimensions |-> ArrayDimensions_new(dim),
     name       |-> ArrayName_new(name),
     ir         |-> ArrayDimensions_new(dim_ir),
     jc         |-> ArrayDimensions_new(dim_jc),
     value      |-> ArrayDataSparse_new(T, value),
     value_cmp  |-> IF is_some(value_cmp)
                    THEN Some(ArrayDataSparse_new(T, value_cmp[1])) ELSE None]

\* impl From<SparseArray> for SparseArray7
SparseArray7_from(a) ==
    CASE a.value.kind = "F64" /\ is_some(a.value_cmp) ->
            IF a.value_cmp[1].kind = "F64"
            THEN Ok(SparseArray7_new("f64", <<>>, a.dim, a.ir, a.jc, a.value.items,
                                     Some(a.value_cmp[1].items)))
            ELSE Panic("called Option::unwrap() on a None value")
      [] a.value.kind = "F64" ->
            Ok(SparseArray7_new("f64", <<>>, a.dim, a.ir, a.jc, a.value.items, None))
      [] a.value.kind = "BOOL" /\ ~is_some(a.value_cmp) ->
            Ok(SparseArray7_new("bool", <<>>, a.dim, a.ir, a.jc, a.value.items, None))
      [] OTHER -> Panic("not implemented")

(***************************************************************************)
(* The byte count of a matrix element: size() of the sub-elements, and     *)
(* size_data() of the numeric and of the sparse array, which is written    *)
(* after the data type as the number of bytes that follow.                 *)
(***************************************************************************)
\* The bytes that pad a size to a multiple of m, as the size functions
\* compute them.
padding_to(m, data_size) == IF (data_size % m) = 0 THEN 0 ELSE m - (data_size % m)

\* ArrayProps::size
ArrayProps_size(p) == 16

\* ArrayDimensions::size (ArrayDimensionsNormal::size, ArrayDimensionsSmall::size)
ArrayDimensions_size(d) ==
    LET data_size == 4 * Len(d.dim)
    IN  IF d.form = "Normal" THEN 8 + data_size + (data_size % 8) ELSE 4 + data_size

\* ArrayDimensions::is_empty
ArrayDimensions_is_empty(d) == Product(d.dim) = 0

\* ArrayName::size
ArrayName_size(n) ==
    LET data_size == str_len(n.chars)
    IN  CASE n.form = "Empty"  -> 8
          [] n.form = "Normal" -> 8 + data_size + padding_to(8, data_size)
          [] n.form = "Small"  -> 4 + data_size + padding_to(4, data_size)

\* ArrayData::size and ArrayDataSparse::size
ArrayData_size(d) ==
    IF d.framing = "DataNormal" THEN 8 + d.data_size + padding_to(8, d.data_size)
    ELSE 4 + d.data_size + (IF d.data_size = 0 THEN 4 ELSE padding_to(4, d.data_size))

\* NumericArray7::size_data: the size of the real block is added once more
\* when there is an imaginary block.
NumericArray7_size_data(a) ==
    ArrayProps_size(a.props) + ArrayDimensions_size(a.dimensions) + ArrayName_size(a.name)
        + ArrayData_size(a.value)
        + (IF is_some(a.value_cmp) THEN ArrayData_size(a.value) ELSE 0)

\* SparseArray7::size_data
SparseArray7_size_data(a) ==
    ArrayProps_size(a.props) + ArrayDimensions_size(a.dimensions)
        + ArrayDimensions_size(a.ir) + ArrayDimensions_size(a.jc) + ArrayName_size(a.name)
        + ArrayData_size(a.value)
        + (IF is_some(a.value_cmp) THEN ArrayData_size(a.value) ELSE 0)
        + (IF ArrayDimensions_is_empty(a.dimensions) THEN 4 ELSE 0)

\* impl From<MatVariable> for MatVariable7 (with From<CompressedArray>)
RECURSIVE MatVariable7_from(_)
MatVariable7_from(value) ==
    LET wrapped(r) == IF is_ok(r) THEN Ok(CompressedArray7_new(r.val)) ELSE r
    IN  CASE value.variant = "Compressed" -> wrapped(MatVariable7_from(value.value))
          [] value.variant = "NumericArray" -> NumericArray7_from(value)
          [] value.variant = "Structure" ->
                LET built(c) ==
                        IF is_ok(c)
                        THEN Ok(Structure7_new([i \in 1..Len(value.value) |->
                                                   value.value[i].name], c.val))
                        ELSE c
                IN  built(collect([i \in 1..Len(value.value) |->
                                      MatVariable7_from(value.value[i].value)]))
          [] value.variant = "StructureArray" ->
                LET built(c) ==
                        IF is_ok(c)
                        THEN Ok(StructureArray7_new(value.dim, value.fieldnames, c.val))
                        ELSE c
                    fields == concat([k \in 1..Len(value.value) |->
                                      [i \in 1..Len(value.value[k].value) |->
                                          value.value[k].value[i].value]])
                IN  built(collect([i \in 1..Len(fields) |-> MatVariable7_from(fields[i])]))
          [] value.variant = "SparseArray" -> SparseArray7_from(value)
          [] value.variant = "Unsupported" ->
                Ok(NumericArray7_new("f64", <<1, 1>>, <<>>, None))
          [] OTHER -> Panic("not implemented")

\* MatVariable7::set_name
RECURSIVE set_name(_, _)
set_name(v, name) ==
    IF v.variant = "Compressed"
    THEN [v EXCEPT !.value = set_name(v.value, name)]
    ELSE NumericArray7_set_name(v, name)

\* MatVariable7::name, or the panic on a variant that has none.
RECURSIVE MatVariable7_name(_)
MatVariable7_name(v) ==
    CASE v.variant = "Compressed" -> MatVariable7_name(v.value)
      [] v.variant \in {"Numeric", "Structure", "StructureArray", "Sparse",
                         "ObjectMCOS", "ObjectHandle"} ->
            Ok(ArrayName_name(v.name))
      [] OTHER                    -> Panic("not implemented")

zlib_deflate(bytes) == [deflated |-> bytes]

zlib_inflate(z) == z.deflated

\* Writing a MatVariable7 (the derived BinWrite, compress_data for the
\* compressed variant).
RECURSIVE MatVariable7_write(_)
MatVariable7_write(v) ==
    IF v.variant = "Compressed"
    THEN [data_type |-> v.data_type, zlib |-> zlib_deflate(MatVariable7_write(v.value))]
    ELSE IF v.variant \in {"Structure", "StructureArray"}
    THEN [data_type  |-> v.data_type,
          props      |-> v.props,
          dimensions |-> v.dimensions,
          name       |-> v.name,
          fieldnames |-> ArrayFieldNames_write(v.fieldnames),
          value      |-> [i \in 1..Len(v.value) |-> MatVariable7_write(v.value[i])]]
    ELSE IF v.variant = "Sparse"
    THEN [data_type  |-> v.data_type,
          num_bytes  |-> SparseArray7_size_data(v),
          props      |-> v.props,
          dimensions |-> v.dimensions,
          name       |-> v.name,
          ir         |-> v.ir,
          jc         |-> v.jc,
          value      |-> ArrayData_write(v.value),
          value_cmp  |-> IF is_some(v.value_cmp) THEN Some(ArrayData_write(v.value_cmp[1])) ELSE None]
    ELSE [data_type  |-> v.data_type,
          num_bytes  |-> NumericArray7_size_data(v),
          props      |-> v.props,
          dimensions |-> v.dimensions,
          name       |-> v.name,
          value      |-> ArrayData_write(v.value),
          value_cmp  |-> IF is_some(v.value_cmp) THEN Some(ArrayData_write(v.value_cmp[1])) ELSE None]

\* Reading NumericArray7 (the derived BinRead with its assert).
NumericArray7_read(e) ==
    LET cls == e.props.array_class
        logical == e.props.array_flags.is_logical
        some(r) == IF is_ok(r) THEN Ok(Some(r.val)) ELSE r
        built(value, value_cmp) ==
            IF ~is_ok(value) THEN value
            ELSE IF ~is_ok(value_cmp) THEN value_cmp
            ELSE Ok([variant |-> "Numeric", data_type |-> e.data_type, props |-> e.props,
                     dimensions |-> e.dimensions, name |-> e.name,
                     value |-> value.val, value_cmp |-> value_cmp.val])
    IN  IF ~(e.data_type = "MiMATRIX" /\ cls \notin {"MxCELLCLASS", "MxSTRUCTCLASS"})
        THEN Err("AssertFail")
        ELSE built(ArrayData_read(e.value, cls, logical),
                   IF ~e.props.array_flags.is_complex THEN Ok(None)
                   ELSE IF e.value_cmp = None THEN Err("Io")
                   ELSE some(ArrayData_read(e.value_cmp[1], cls, logical)))

\* uncompress_data: the whole stream is inflated, and the result of the
\* read unwrapped.  A stream that no deflate produced does not inflate.
uncompress_data(z) ==
    IF "deflated" \in DOMAIN z THEN Ok(zlib_inflate(z))
    ELSE Panic("called Result::unwrap() on an Err value")

RECURSIVE MatVariable7_read(_)

\* The elements of a structure: count elements read one after the other,
\* an error when the file ends before.
read_count(elements, count) ==
    IF Len(elements) < count THEN Err("Io")
    ELSE collect([i \in 1..count |-> MatVariable7_read(elements[i])])

\* Reading Structure7 (the derived BinRead with its asserts): the assert
\* on the dimensions follows their read, the assert on the data type and
\* the class the read of the last field.
Structure7_read(e) ==
    LET built(t) ==
            LET valued(value) ==
                    IF ~is_ok(value) THEN value
                    ELSE IF ~(e.data_type = "MiMATRIX"
                              /\ e.props.array_class = "MxSTRUCTCLASS")
                    THEN Err("AssertFail")
                    ELSE Ok([variant |-> "Structure", data_type |-> e.data_type,
                             props |-> e.props, dimensions |-> e.dimensions,
                             name |-> e.name, fieldnames |-> t.val, value |-> value.val])
            IN  IF ~is_ok(t) THEN t
                ELSE valued(read_count(e.value, Len(ArrayFieldNames_fieldnames(t.val))))
    IN  IF Product(e.dimensions.dim) # 1 THEN Err("AssertFail")
        ELSE built(ArrayFieldNames_read(e.fieldnames))

\* Reading the structure array: the field-name table, then the fields of
\* every cell, as many inner variables as cells times fields.
StructureArray7_read(e) ==
    LET built(t) ==
            LET valued(value) ==
                    IF ~is_ok(value) THEN value
                    ELSE IF ~(e.data_type = "MiMATRIX"
                              /\ e.props.array_class = "MxSTRUCTCLASS")
                    THEN Err("AssertFail")
                    ELSE Ok([variant |-> "StructureArray", data_type |-> e.data_type,
                             props |-> e.props, dimensions |-> e.dimensions,
                             name |-> e.name, fieldnames |-> t.val, value |-> value.val])
            IN  IF ~is_ok(t) THEN t
                ELSE valued(read_count(e.value, Product(e.dimensions.dim)
                                * Len(ArrayFieldNames_fieldnames(t.val))))
    IN  built(ArrayFieldNames_read(e.fieldnames))

\* Reading ObjectMCOS7 (the derived BinRead with its assert): the tag, the
\* flags, the name, the type name and the variable inside.
ObjectMCOS7_read(e) ==
    LET built(v) ==
            IF ~is_ok(v) THEN v
            ELSE IF ~(e.data_type = "MiMATRIX" /\ e.props.array_class = "MxOPAQUECLASS")
            THEN Err("AssertFail")
            ELSE Ok([variant |-> "ObjectMCOS", data_type |-> e.data_type,
                     props |-> e.props, name |-> e.name, type_name |-> e.type_name,
                     var |-> v.val])
    IN  IF "type_name" \notin DOMAIN e THEN Err("Io") ELSE built(MatVariable7_read(e.var))

\* Reading ObjectHandle7 (the derived BinRead with its assert): the tag,
\* the flags, the dimensions, the name and the variable inside.
ObjectHandle7_read(e) ==
    LET built(v) ==
            IF ~is_ok(v) THEN v
            ELSE IF ~(e.data_type = "MiMATRIX" /\ e.props.array_class = "MxHANDLECLASS")
            THEN Err("AssertFail")
            ELSE Ok([variant |-> "ObjectHandle", data_type |-> e.data_type,
                     props |-> e.props, dimensions |-> e.dimensions, name |-> e.name,
                     var |-> v.val])
    IN  IF "var" \notin DOMAIN e \/ "type_name" \in DOMAIN e THEN Err("Io")
        ELSE built(MatVariable7_read(e.var))

\* Reading MatVariable7: the variants are tried in their order, the next
\* when one returns an error.  Only the object variants accept the classes
\* of objects and of handles; only the compressed variant accepts the data
\* type MiCOMPRESSED; only Structure7 and the structure array accept the
\* class of structures, and NumericArray7 the numeric classes; an element
\* of data type MiMATRIX that they reject is accepted by Empty7.
MatVariable7_read(e) ==
    LET wrapped(r) == IF is_ok(r) THEN Ok(CompressedArray7_new(r.val)) ELSE r
        inflated(z) == IF is_ok(z) THEN wrapped(MatVariable7_read(z.val)) ELSE z
        numeric(r) == IF r.tag = "Err" /\ e.data_type = "MiMATRIX" THEN Ok(Empty7) ELSE r
        array(r) == IF r.tag = "Err" THEN numeric(StructureArray7_read(e)) ELSE r
    IN  IF e.data_type = "MiMATRIX" /\ e.props.array_class = "MxOPAQUECLASS"
        THEN numeric(ObjectMCOS7_read(e))
        ELSE IF e.data_type = "MiMATRIX" /\ e.props.array_class = "MxHANDLECLASS"
        THEN numeric(ObjectHandle7_read(e))
        ELSE IF e.data_type = "MiCOMPRESSED"
        THEN inflated(uncompress_data(e.zlib))
        ELSE IF e.data_type = "MiMATRIX" /\ e.props.array_class = "MxSTRUCTCLASS"
        THEN array(Structure7_read(e))
        ELSE numeric(NumericArray7_read(e))

\* impl From<NumericArray7> for NumericArray
NumericArray_from(a) ==
    expect(NumericArray_new(a.dimensions.dim,
                            MatlabType(a.value.value.var, a.value.value.items),
                            IF is_some(a.value_cmp)
                            THEN Some(MatlabType(a.value_cmp[1].value.var,
                                                 a.value_cmp[1].value.items))
                            ELSE None),
           "Could not create NumericArray.")

\* A conversion of the compressed variant that keeps the wrapper.
RECURSIVE MatVariable_from_keep(_)
MatVariable_from_keep(value) ==
    LET kept(r) == IF is_ok(r) THEN Ok(Compressed(r.val)) ELSE r
    IN  CASE value.variant = "Compressed" -> kept(MatVariable_from_keep(value.value))
          [] value.variant = "Numeric"    -> NumericArray_from(value)
          [] OTHER -> expect(NumericArray_new(<<0, 0>>, MatlabType_new, None),
                             "Could not create NumericArray.")

\* impl From<MatVariable7> for MatVariable and impl From<CompressedArray7>
\* for MatVariable: the same match, the second on the variable inside.
RECURSIVE MatVariable_from(_)
MatVariable_from(value) ==
    CASE value.variant = "Compressed" -> MatVariable_from(value.value)
      [] value.variant = "Numeric"    -> NumericArray_from(value)
      [] value.variant = "Structure"  ->
            \* impl From<Structure7> for Structure
            LET mapped(c) ==
                    IF is_ok(c)
                    THEN Ok(Structure(structure_inserts(<<>>,
                                ArrayFieldNames_fieldnames(value.fieldnames), c.val)))
                    ELSE c
            IN  mapped(collect([i \in 1..Len(value.value) |->
                                   MatVariable_from(value.value[i])]))
      [] value.variant = "StructureArray" ->
            \* impl From<StructureArray7> for StructureArray
            LET made(c) ==
                    IF is_ok(c)
                    THEN expect(StructureArray_new(value.dimensions.dim,
                                    ArrayFieldNames_fieldnames(value.fieldnames), c.val),
                                "called Result::unwrap() on an Err value")
                    ELSE c
            IN  made(collect([i \in 1..Len(value.value) |->
                                 MatVariable_from(value.value[i])]))
      [] value.variant \in {"ObjectMCOS", "ObjectHandle"} -> Ok(Unsupported)
      [] OTHER -> expect(NumericArray_new(<<0, 0>>, MatlabType_new, None),
                         "Could not create NumericArray.")

(***************************************************************************)
(* The file: MatFile7 is the list of the variables of a file, each under   *)
(* its name, in the order of the container; save emits the header and then *)
(* each variable in insertion order, load reads variables until the region *)
(* is consumed.                                                            *)
(***************************************************************************)
\* impl From<MatFile> for MatFile7
RECURSIVE MatFile7_from(_)
MatFile7_from(data) ==
    LET pushed(r, rest) ==
            IF ~is_ok(r) THEN r
            ELSE IF ~is_ok(rest) THEN rest
            ELSE Ok(<<set_name(r.val, Head(data).name)>> \o rest.val)
    IN  IF data = <<>> THEN Ok(<<>>)
        ELSE pushed(MatVariable7_from(Head(data).value), MatFile7_from(Tail(data)))

MatFile7_write(variables) == [i \in 1..Len(variables) |-> MatVariable7_write(variables[i])]

RECURSIVE MatFile7_read(_)
MatFile7_read(elements) ==
    LET pushed(r, rest) ==
            IF ~is_ok(r) THEN r
            ELSE IF ~is_ok(rest) THEN rest
            ELSE Ok(<<r.val>> \o rest.val)
    IN  IF elements = <<>> THEN Ok(<<>>)
        ELSE pushed(MatVariable7_read(Head(elements)), MatFile7_read(Tail(elements)))

\* impl From<MatFile7> for MatFile: the variables are inserted in order.
RECURSIVE MatFile_from(_, _)
MatFile_from(variables, data) ==
    LET inserted(key, value) ==
            IF ~is_ok(key) THEN key
            ELSE IF ~is_ok(value) THEN value
            ELSE MatFile_from(Tail(variables), indexmap_insert(data, key.val, value.val))
    IN  IF variables = <<>> THEN Ok(data)
        ELSE inserted(MatVariable7_name(Head(variables)), MatVariable_from(Head(variables)))

MatFileHeader_new(ver) == [matfile_ver |-> ver]

\* save_matfile_v7 on a sink that fails at a stage (the creation of the
\* file, the write of the header, the write of a variable, the flush) or
\* at none: what it returns and the file it leaves.  The file is created
\* and the header buffered before the container is converted; the results
\* of the writes and of the flush are dropped.  A sink that failed has not
\* taken what was written last.
save_matfile_v7_on(fails, data, compress) ==
    LET header == MatFileHeader_new("V7")
        left(elements) ==
            CASE fails = "header" ->
                    Some([header |-> [matfile_ver |-> "Missing"], elements |-> <<>>])
              [] fails \in {"variable", "flush"} /\ elements # <<>> ->
                    Some([header |-> header,
                          elements |-> SubSeq(elements, 1, Len(elements) - 1)])
              [] OTHER -> Some([header |-> header, elements |-> elements])
        written(mf) ==
            IF is_ok(mf)
            THEN [ret |-> Ok("unit"), file |-> left(MatFile7_write(mf.val))]
            ELSE [ret |-> mf, file |-> left(<<>>)]
    IN  IF fails = "create" THEN [ret |-> Err("IoError"), file |-> None]
        ELSE written(MatFile7_from(IF compress
                                   THEN [i \in 1..Len(data) |->
                                            Entry(data[i].name, Compressed(data[i].value))]
                                   ELSE data))

\* save_matfile_v7 on a sink that does not fail.
save_matfile_v7(data, compress) == save_matfile_v7_on("none", data, compress)

\* load_matfile
load_matfile(f) ==
    LET into(r) == IF r.tag = "Err" THEN Err("BinrwError")
                   ELSE IF ~is_ok(r) THEN r
                   ELSE MatFile_from(r.val, <<>>)
    IN  IF f = None THEN Err("IoError")
        ELSE IF f[1].header.matfile_ver \notin {"V7", "V73"} THEN Err("BinrwError")
        ELSE IF f[1].header.matfile_ver # "V7" THEN Err("MatFile73Error")
        ELSE into(MatFile7_read(f[1].elements))

(***************************************************************************)
(* SpecName: a program that inserts variables under arbitrary names and    *)
(* takes them out again.  A panic ends the run.                            *)
(***************************************************************************)
MaxNameLen == 2

MaxVars == 1

NameAlphabet == {"a", "_"}

\* Every name over NameAlphabet of at most MaxNameLen characters.
ShortNames == UNION {[1..n -> NameAlphabet] : n \in 0..MaxNameLen}

LongNames == {
    Rep("a", NAME_LEN_MAX - 1),
    Rep("a", NAME_LEN_MAX),
    Rep("a", NAME_LEN_MAX + 1),
    <<"Z">> \o Rep("_", NAME_LEN_MAX - 1),
    <<"_">> \o Rep("a", NAME_LEN_MAX - 1),
    Rep("a", NAME_LEN_MAX - 2) \o <<"U+00E9">>,
    Rep("a", NAME_LEN_MAX - 1) \o <<"U+00E9">> }

OtherNames == {
    <<"A">>, <<"Z","9">>, <<"I","f">>, <<"1">>, <<"a","1">>, <<"1","a">>, <<"e","n","d","_">>, <<"i","f","f">>,
    <<" ">>, <<"a"," ">>, <<"a","!">>, <<"a","-","b">>, <<"9","a">>,
    <<"U+00E9">>, <<"a","U+00E9">>, <<"U+1F600">> }

Names == ShortNames \cup MATLABKEYWORDS \cup LongNames \cup OtherNames

\* A scalar of the given kind holding the integer i.
scalar(kind, i) == NumericArray(<<1, 1>>, MatlabType(kind, <<IntNum(i)>>), None)

NameValues == {scalar("F64", 1)}

InitName ==
    /\ matfile = <<>>
    /\ file = None
    /\ loaded = None
    /\ input = None
    /\ var = Null
    /\ result = [op |-> "none"]
    /\ pc = "run"

\* m.insert(name, value)
Insert(name, value) ==
    /\ pc = "run"
    /\ Len(matfile) < MaxVars \/ contains(matfile, name) \/ ~is_valid_variable_name(name)
    /\ LET r == insert(matfile, name, value)
       IN  /\ matfile' = r.data
           /\ result' = [op |-> "insert", name |-> name, value |-> value,
                         outcome |-> r.tag, before |-> matfile]
           /\ pc' = IF r.tag = "Panic" THEN "aborted" ELSE "run"
    /\ UNCHANGED <<file, loaded, input, var>>

\* m.take(name)
Take(name) ==
    /\ pc = "run"
    /\ LET r == take(matfile, name)
       IN  /\ matfile' = r.data
           /\ result' = [op |-> "take", name |-> name, ret |-> r.ret]
    /\ UNCHANGED <<file, loaded, input, var, pc>>

NextName ==
    \/ \E name \in Names, value \in NameValues : Insert(name, value)
    \/ \E name \in ShortNames : Take(name)

SpecName == InitName /\ [][NextName]_vars

(***************************************************************************)
(* The rules for names as the specification words them.                    *)
(***************************************************************************)
Letters == {"a","b","c","d","e","f","g","h","i","j","k","l","m","n","o","p","q",
            "r","s","t","u","v","w","x","y","z","A","B","C","D","E","F","G","H",
            "I","J","K","L","M","N","O","P","Q","R","S","T","U","V","W","X","Y","Z"}

Digits == {"0","1","2","3","4","5","6","7","8","9"}

\* The names the rules reject by name: empty, a digit or an underscore first,
\* more than 63 characters, a keyword.
NameRejected(n) ==
    \/ n = <<>>
    \/ n # <<>> /\ n[1] \in Digits \cup {"_"}
    \/ Len(n) > 63
    \/ n \in MATLABKEYWORDS

\* The names the rules accept.
NameAccepted(n) ==
    /\ Len(n) \in 1..63
    /\ n[1] \in Letters
    /\ \A i \in 2..Len(n) : n[i] \in Letters \cup Digits \cup {"_"}
    /\ n \notin MATLABKEYWORDS

C10_InvalidInsertPanics ==
    result.op = "insert" /\ ~NameAccepted(result.name) =>
        /\ result.outcome = "Panic"
        /\ pc = "aborted"
        /\ matfile = result.before

\* An insert under a name with a character outside the allowed ones has
\* panicked.
C10_Witness ==
    /\ result.op = "insert"
    /\ result.name = <<"a", "!">>
    /\ result.outcome = "Panic"
    /\ pc = "aborted"

\* C10 as stated: an insert under an invalid name is reported as an access
\* error and does not abort the run.
C10_AsStated ==
    result.op = "insert" /\ ~NameAccepted(result.name) =>
        /\ result.outcome = "Err"
        /\ pc # "aborted"


(***************************************************************************)
(* SpecIO: a program that fills a container, saves it (compressed or not)  *)
(* and loads the written file.  SpecDowncast is the same program with one  *)
(* variable that is an f64 array over a wider range of values.             *)
(***************************************************************************)
MaxLen == 2

IONames == {<<"a">>, <<"a","l","p","h","a">>}

\* The element values the arrays are drawn over, by kind.
IOItems(kind) ==
    CASE kind = "U8"    -> {IntNum(200)}
      [] kind = "I8"    -> {IntNum(-100)}
      [] kind = "U16"   -> {IntNum(60000)}
      [] kind = "I16"   -> {IntNum(-30000)}
      [] kind = "U32"   -> {NumOf(61035, 10240, 0)}
      [] kind = "I32"   -> {IntNum(-2000000000)}
      [] kind = "U64"   -> {NumOf(1000000, 5, 0)}
      [] kind = "I64"   -> {NumOf(-1000000, 5, 0)}
      [] kind = "F32"   -> {NumOf(0, 1, 1)}
      [] kind = "F64"   -> {IntNum(1), NumOf(0, 0, 1)}
      [] kind = "UTF8"  -> {IntNum(104), IntNum(233)}
      [] kind = "UTF16" -> {IntNum(104)}
      [] kind = "BOOL"  -> {IntNum(0), IntNum(1)}

\* The imaginary part given to a complex array of n elements.
IOImag(kind, n) ==
    MatlabType(kind, [i \in 1..n |-> IF kind = "F64" THEN NumOf(0, 0, 1)
                                    ELSE CHOOSE x \in IOItems(kind) : x # Zero])

\* The arrays over a set of element values: every buffer of at most MaxLen
\* elements as a row vector ([0, 0] when empty), real and complex.
ArraysOver(kind, items) ==
    UNION { { NumericArray_new(IF b = <<>> THEN <<0, 0>> ELSE <<1, Len(b)>>,
                               MatlabType(kind, b), cmp).val :
                cmp \in {None, Some(IOImag(kind, Len(b)))} } :
            b \in UNION {[1..m -> items] : m \in 0..MaxLen} }

IOArrays == UNION { ArraysOver(kind, IOItems(kind)) : kind \in MatlabKinds }

IOValues == IOArrays \cup {Unsupported, Compressed(scalar("F64", 1))}

InitIO ==
    /\ matfile = <<>>
    /\ file = None
    /\ loaded = None
    /\ input = None
    /\ var = Null
    /\ result = [op |-> "none"]
    /\ pc = "run"

\* m.insert(name, value) under a new name, before the container is saved
InsertVar(name, value) ==
    /\ pc = "run"
    /\ ~contains(matfile, name)
    /\ LET returned(r) ==
               /\ matfile' = r.data
               /\ result' = [op |-> "insert", outcome |-> r.tag]
               /\ pc' = IF r.tag = "Panic" THEN "aborted" ELSE "run"
       IN  returned(insert(matfile, name, value))
    /\ UNCHANGED <<file, loaded, input, var>>

\* save_matfile_v7(path, m.clone(), compress)
Save(compress) ==
    /\ pc = "run"
    /\ LET returned(r) ==
               /\ file' = r.file
               /\ result' = [op |-> "save", compress |-> compress, outcome |-> r.ret.tag]
               /\ pc' = IF r.ret.tag = "Panic" THEN "aborted" ELSE "saved"
       IN  returned(save_matfile_v7(matfile, compress))
    /\ UNCHANGED <<matfile, loaded, input, var>>

\* load_matfile(path)
Load ==
    /\ pc = "saved"
    /\ LET returned(r) ==
               /\ loaded' = Some(r)
               /\ result' = [op |-> "load", compress |-> result.compress, outcome |-> r.tag]
               /\ pc' = IF r.tag = "Panic" THEN "aborted" ELSE "loaded"
       IN  returned(load_matfile(file))
    /\ UNCHANGED <<matfile, file, input, var>>

NextIO ==
    \/ \E name \in IONames, value \in IOValues : InsertVar(name, value)
    \/ \E compress \in BOOLEAN : Save(compress)
    \/ Load

SpecIO == InitIO /\ [][NextIO]_vars

(***************************************************************************)
(* Saving and loading, as the specification words it.                      *)
(***************************************************************************)
\* The variable a compressed wrapper holds.
RECURSIVE payload(_)
payload(v) == IF v.variant = "Compressed" THEN payload(v.value) ELSE v

\* Same dimension vector, element kind, complex status and element values.
SameVariable(u, v) ==
    /\ payload(u).variant = "NumericArray"
    /\ v.variant = "NumericArray"
    /\ v.dim = payload(u).dim
    /\ v.value.kind = payload(u).value.kind
    /\ is_complex(v) = is_complex(payload(u))
    /\ v.value.items = payload(u).value.items
    /\ is_complex(v) => v.value_cmp[1].items = payload(u).value_cmp[1].items

\* Same names in the same order, and the same variable under each.
SameContainer(c, d) ==
    /\ Len(d) = Len(c)
    /\ \A i \in 1..Len(c) : d[i].name = c[i].name /\ SameVariable(c[i].value, d[i].value)

\* The empty f64 array, matvar!([]).
EmptyF64 == NumericArray(<<0, 0>>, MatlabType_new, None)

\* C1 as the specification states it: whenever save accepted the container,
\* loading the written file succeeds and yields the same names in the same
\* order and, for every variable, the same dimension vector, element kind,
\* complex status and element values.
C1_RoundTrip ==
    result.op = "load" => is_ok(loaded[1]) /\ SameContainer(matfile, loaded[1].val)

\* C1, the failing input: the container that holds the empty f64 array was
\* saved and loaded, and the loaded array has element kind U8.
C1_Witness ==
    /\ result.op = "load"
    /\ matfile = <<Entry(<<"a">>, EmptyF64)>>
    /\ is_ok(loaded[1])
    /\ loaded[1].val[1].value.dim = <<0, 0>>
    /\ loaded[1].val[1].value.value.kind = "U8"

\* What holds of the round trip: C1's statement for the containers whose
\* variables are non-empty numeric arrays with ASCII-only characters.
RoundTripsExactly(v) ==
    /\ payload(v).variant = "NumericArray"
    /\ ~is_empty(payload(v).value)
    /\ \/ payload(v).value.kind # "UTF8"
       \/ \A i \in 1..type_len(payload(v).value) : is_ascii(payload(v).value.items[i])

RoundTripOfNonEmptyArrays ==
    (result.op = "load" /\ \A i \in 1..Len(matfile) : RoundTripsExactly(matfile[i].value))
        => is_ok(loaded[1]) /\ SameContainer(matfile, loaded[1].val)

\* C2: once a saved container has been loaded, the result (a container, an
\* error or a panic) equals the result of saving the same container with
\* the other value of compress and loading that file, and no variable of a
\* loaded container is in the compressed variant.
C2_CompressTransparent ==
    result.op = "load" =>
        /\ loaded[1] = load_matfile(save_matfile_v7(matfile, ~result.compress).file)
        /\ is_ok(loaded[1]) =>
              \A i \in 1..Len(loaded[1].val) : loaded[1].val[i].value.variant # "Compressed"

\* C2: a container of two variables, one of them complex, was saved with
\* compress = true, every variable of the file is a compressed element, and
\* the file was loaded.
C2_Witness ==
    /\ result.op = "load"
    /\ result.compress
    /\ Len(matfile) = 2
    /\ \E i \in 1..2 : matfile[i].value.variant = "NumericArray" /\ is_complex(matfile[i].value)
    /\ \A i \in 1..2 : file[1].elements[i].data_type = "MiCOMPRESSED"
    /\ is_ok(loaded[1])
    /\ Len(loaded[1].val) = 2

(***************************************************************************)
(* SpecDowncast: one variable, an f64 array over the limits of u8, a value *)
(* of each wider integer type the writer tries, 2^32 and a fraction.       *)
(***************************************************************************)
DowncastItems ==
    { IntNum(0), IntNum(255), IntNum(256), IntNum(-1), IntNum(-129), IntNum(65536),
      IntNum(-32769), NumOf(65536, 0, 0), NumOf(0, 0, 1) }

DowncastArrays == ArraysOver("F64", DowncastItems)

NextDowncast ==
    \/ \E value \in DowncastArrays : InsertVar(<<"a">>, value)
    \/ \E compress \in BOOLEAN : Save(compress)
    \/ Load

SpecDowncast == InitIO /\ [][NextDowncast]_vars

\* The matrix element a written variable is, inside its compressed
\* elements if it has any.
RECURSIVE matrix_element(_)
matrix_element(e) ==
    IF e.data_type = "MiCOMPRESSED" THEN matrix_element(zlib_inflate(e.zlib)) ELSE e

\* An f64 array whose elements are all integers within [0, 255].
IsByteValued(a) ==
    /\ a.variant = "NumericArray"
    /\ a.value.kind = "F64"
    /\ \A i \in 1..type_len(a.value) :
          /\ ~has_fract(a.value.items[i])
          /\ ~num_lt(a.value.items[i], IntNum(0))
          /\ ~num_gt(a.value.items[i], IntNum(255))

\* C3 as the specification states it: once a container whose variable is an
\* f64 array of integers within [0, 255] has been saved and loaded, the
\* value block of the written variable has wire type u8, and the loaded
\* variable has element kind f64 and the same values.
C3_Downcast ==
    (result.op = "load" /\ Len(matfile) = 1 /\ IsByteValued(matfile[1].value)) =>
        /\ matrix_element(file[1].elements[1]).value.data_type = "MiUINT8"
        /\ is_ok(loaded[1])
        /\ loaded[1].val[1].value.value.kind = "F64"
        /\ loaded[1].val[1].value.value.items = matfile[1].value.value.items

\* C3, the failing input: the empty f64 array, whose elements are trivially
\* all integers within [0, 255], was written with a u8 value block and is
\* loaded with element kind U8.
C3_Witness ==
    /\ result.op = "load"
    /\ matfile = <<Entry(<<"a">>, EmptyF64)>>
    /\ IsByteValued(matfile[1].value)
    /\ matrix_element(file[1].elements[1]).value.data_type = "MiUINT8"
    /\ is_ok(loaded[1])
    /\ loaded[1].val[1].value.value.kind # "F64"

\* What holds of the downcast: C3's statement for the arrays that have an
\* element, real part and imaginary part alike.
DowncastOfNonEmptyArrays ==
    (result.op = "load" /\ Len(matfile) = 1 /\ IsByteValued(matfile[1].value)
        /\ ~is_empty(matfile[1].value.value)) =>
        /\ matrix_element(file[1].elements[1]).value.data_type = "MiUINT8"
        /\ is_ok(loaded[1])
        /\ loaded[1].val[1].value.value = matfile[1].value.value
        /\ loaded[1].val[1].value.value_cmp = matfile[1].value.value_cmp

(***************************************************************************)
(* Indexing.  An index is a usize (column-major) or a slice of usize       *)
(* (multi-dimensional); both count from 0.  A call that may panic yields   *)
(* Ok(option) or Panic.                                                    *)
(***************************************************************************)
IndexUsize(k) == [form |-> "usize", k |-> k, idx |-> <<>>]

IndexMulti(idx) == [form |-> "multi", k |-> 0, idx |-> idx]

\* An index that is a name (&str).
IndexName(name) == [form |-> "name", k |-> 0, idx |-> <<>>, name |-> name]

\* MatlabType::clone_at_index: items[index] panics out of bounds.
clone_at_index(value, index) ==
    IF index < type_len(value)
    THEN Ok(MatlabType(value.kind, <<value.items[index + 1]>>))
    ELSE Panic("index out of bounds")

\* impl ArrayType for NumericArray: get_clone_colmaj
NumericArray_get_clone_colmaj(a, index) ==
    LET some(r) == IF is_ok(r) THEN Ok(Some(r.val)) ELSE Ok(None)
        cloned(re, im) ==
            IF ~is_ok(re) THEN re
            ELSE IF ~is_ok(im) THEN im
            ELSE some(NumericArray_new(<<1, 1>>, re.val, im.val))
    IN  IF is_complex(a)
        THEN cloned(clone_at_index(a.value, index),
                    LET part(c) == IF is_ok(c) THEN Ok(Some(c.val)) ELSE c
                    IN  part(clone_at_index(a.value_cmp[1], index)))
        ELSE cloned(clone_at_index(a.value, index), Ok(None))

\* The loop of ArrayType::column_index over idx.iter().zip(dim.iter()).
RECURSIVE column_index_loop(_, _, _, _)
column_index_loop(idx, dim, v_idx, stride) ==
    IF idx = <<>> \/ dim = <<>> THEN v_idx
    ELSE column_index_loop(Tail(idx), Tail(dim),
                           v_idx + Head(idx) * stride, stride * Head(dim))

\* The same loop with the stride left at 1.
column_index_unit_stride(dim, idx) ==
    IF Len(dim) # Len(idx) THEN None
    ELSE IF \E i \in 1..Len(idx) : dim[i] <= idx[i] THEN None
    ELSE Some(column_index_loop(idx, [i \in 1..Len(dim) |-> 1], 0, 1))

\* ArrayType::column_index
column_index(dim, idx) ==
    IF Len(dim) # Len(idx) THEN None
    ELSE IF \E i \in 1..Len(idx) : dim[i] <= idx[i] THEN None
    ELSE Some(column_index_loop(idx, dim, 0, 1))

\* ArrayType::get_clone_multidim, for NumericArray
NumericArray_get_clone_multidim(a, idx) ==
    LET at(k) == IF is_some(k) THEN NumericArray_get_clone_colmaj(a, k[1]) ELSE Ok(None)
    IN  at(column_index(a.dim, idx))

(***************************************************************************)
(* The nested-literal constructor.                                         *)
(***************************************************************************)
\* MatlabType::join: a buffer of the first one's kind, extended by each;
\* MatlabType::extend panics on a buffer of another kind.
RECURSIVE join(_)
join(vec) ==
    IF \E i \in 1..Len(vec) : vec[i].kind # vec[1].kind
    THEN Panic("explicit panic")
    ELSE IF Len(vec) = 1 THEN Ok(vec[1])
    ELSE LET joined(rest) == Ok(MatlabType(vec[1].kind, vec[1].items \o rest.val.items))
         IN  joined(join(Tail(vec)))

\* The buffer left as it is.
row_vec_to_colmaj_unmoved(value, n_rows, n_cols) == value

\* MatlabType::row_vec_to_colmaj: v[c * n_rows + r] = value[r * n_cols + c]
\* for every r < n_rows and c < n_cols, on a buffer of n_rows * n_cols
\* elements, which is what every caller passes.
row_vec_to_colmaj(value, n_rows, n_cols) ==
    MatlabType(value.kind,
               [j \in 1..type_len(value) |->
                   IF j <= n_rows * n_cols
                   THEN value.items[((j - 1) % n_rows) * n_cols + ((j - 1) \div n_rows) + 1]
                   ELSE value.items[j]])

\* The check that opens the three functions below: every child has the
\* first one's dimension and complex property.
same_dim_and_complex(rows) ==
    \A i \in 1..Len(rows) :
        /\ rows[i].dim = rows[1].dim
        /\ is_complex(rows[i]) = is_complex(rows[1])

\* The joined real parts, or the joined imaginary parts, of the children.
joined_parts(rows, imaginary) ==
    join([i \in 1..Len(rows) |->
             IF imaginary THEN rows[i].value_cmp[1] ELSE rows[i].value])

nested_row_vecs_to_colmaj_array(rows) ==
    IF ~same_dim_and_complex(rows) THEN Err("TypeConstruction")
    ELSE LET n_cols == Product(rows[1].dim)
             n_rows == Len(rows)
             built(value, cmp) ==
                 IF ~is_ok(value) THEN value
                 ELSE IF ~is_ok(cmp) THEN cmp
                 ELSE Ok([dim |-> <<n_rows, n_cols>>,
                          value |-> row_vec_to_colmaj(value.val, n_rows, n_cols),
                          value_cmp |-> IF is_complex(rows[1])
                                        THEN Some(row_vec_to_colmaj(cmp.val, n_rows, n_cols))
                                        ELSE None])
         IN  built(joined_parts(rows, FALSE),
                   IF is_complex(rows[1]) THEN joined_parts(rows, TRUE) ELSE Ok(Null))

nested_col_vecs_to_colmaj_array(cols) ==
    IF ~same_dim_and_complex(cols) THEN Err("TypeConstruction")
    ELSE LET n_rows == Product(cols[1].dim)
             n_cols == Len(cols)
             built(value, cmp) ==
                 IF ~is_ok(value) THEN value
                 ELSE IF ~is_ok(cmp) THEN cmp
                 ELSE Ok([dim |-> <<n_rows, n_cols>>,
                          value |-> value.val,
                          value_cmp |-> IF is_complex(cols[1])
                                        THEN Some(row_vec_to_colmaj(cmp.val, n_rows, n_cols))
                                        ELSE None])
         IN  built(joined_parts(cols, FALSE),
                   IF is_complex(cols[1]) THEN joined_parts(cols, TRUE) ELSE Ok(Null))

flatten_higher_dim_nested_array(value) ==
    IF ~same_dim_and_complex(value) THEN Err("TypeConstruction")
    ELSE LET built(new_value, cmp) ==
                 IF ~is_ok(new_value) THEN new_value
                 ELSE IF ~is_ok(cmp) THEN cmp
                 ELSE Ok([dim |-> value[1].dim \o <<Len(value)>>,
                          value |-> new_value.val,
                          value_cmp |-> IF is_complex(value[1]) THEN Some(cmp.val) ELSE None])
         IN  built(joined_parts(value, FALSE),
                   IF is_complex(value[1]) THEN joined_parts(value, TRUE) ELSE Ok(Null))

\* MatVariable::dim, of a variable that is not Null (unimplemented!() there).
MatVariable_dim(v) == IF v.variant = "Structure" THEN <<1, 1>> ELSE v.dim

\* The way NumericArray::from_nested_matvar ends when a child is not a
\* numeric array: the children are walked in order, and the first one that
\* differs decides between the error returned (other kind, other dimension,
\* other complex status) and the panic (dim() of Null, numeric_type() or
\* is_complex() unwrapped on a child that has none).
non_numeric_child(value) ==
    LET numeric(i) == value[i].variant = "NumericArray"
    IN  IF value[1].variant = "Null" THEN Panic("not implemented")
        ELSE IF ~numeric(1) THEN Panic("called Option::unwrap() on a None value")
        ELSE IF value[1].dim = <<1, 1>>
        THEN LET differs(i) == ~numeric(i) \/ value[i].value.kind # value[1].value.kind
                 stop == CHOOSE i \in 1..Len(value) :
                            differs(i) /\ \A j \in 1..(i - 1) : ~differs(j)
             IN  IF numeric(stop) THEN Err("TypeConstruction")
                 ELSE Panic("called Option::unwrap() on a None value")
        ELSE LET differs(i) == \/ ~numeric(i)
                               \/ value[i].dim # value[1].dim
                               \/ is_complex(value[i]) # is_complex(value[1])
                 stop == CHOOSE i \in 1..Len(value) :
                            differs(i) /\ \A j \in 1..(i - 1) : ~differs(j)
             IN  IF value[stop].variant = "Null" THEN Panic("not implemented")
                 ELSE IF MatVariable_dim(value[stop]) # value[1].dim
                 THEN Err("TypeConstruction")
                 ELSE IF ~numeric(stop)
                 THEN Panic("called Option::unwrap() on a None value")
                 ELSE Err("TypeConstruction")

\* NumericArray::from_nested_matvar, on children that are numeric arrays.
\* In the branch of scalars a child without an imaginary part under a
\* complex first child panics in value_cmp.as_ref().unwrap().
from_nested_matvar(dim, value) ==
    IF value = <<>> THEN NumericArray_new(dim, MatlabType_new, None)
    ELSE IF \E i \in 1..Len(value) : value[i].variant # "NumericArray"
    THEN non_numeric_child(value)
    ELSE IF value[1].dim = <<1, 1>>
    THEN IF \E i \in 1..Len(value) : value[i].value.kind # value[1].value.kind
         THEN Err("TypeConstruction")
         ELSE LET new_dim == IF dim = <<>> \/ Len(dim) = 1 THEN <<1, Len(value)>> ELSE dim
                  built(value_new, cmp) ==
                      IF ~is_ok(value_new) THEN value_new
                      ELSE IF ~is_ok(cmp) THEN cmp
                      ELSE NumericArray_new(new_dim, value_new.val,
                                            IF is_complex(value[1]) THEN Some(cmp.val)
                                            ELSE None)
              IN  built(joined_parts(value, FALSE),
                        IF ~is_complex(value[1]) THEN Ok(Null)
                        ELSE IF \E i \in 1..Len(value) : ~is_complex(value[i])
                        THEN Panic("called Option::unwrap() on a None value")
                        ELSE joined_parts(value, TRUE))
    ELSE LET made(r) == IF is_ok(r)
                        THEN NumericArray_new(r.val.dim, r.val.value, r.val.value_cmp)
                        ELSE r
         IN  made(IF value[1].dim[1] = 1 THEN nested_row_vecs_to_colmaj_array(value)
                  ELSE IF value[1].dim[2] = 1 THEN nested_col_vecs_to_colmaj_array(value)
                  ELSE flatten_higher_dim_nested_array(value))

\* MatVariable::CellArray(CellArray { dim, value })
CellArray(dim, value) == [variant |-> "CellArray", dim |-> dim, value |-> value]

\* CellArray::new
CellArray_new(dim, value) ==
    IF dim # <<>> /\ Product(dim) # Len(value)
    THEN Err("TypeConstruction")
    ELSE Ok(CellArray(dim, value))

\* check_same_dim
check_same_dim(vec) ==
    IF vec = <<>> THEN FALSE
    ELSE \A i \in 1..Len(vec) : vec[i].dim = vec[1].dim

\* check_same_type: matches!(x.numeric_type(), _first) binds _first as a
\* pattern that every value matches.
check_same_type(vec) ==
    IF vec = <<>> THEN FALSE ELSE \A i \in 1..Len(vec) : TRUE

(***************************************************************************)
(* Structures and structure arrays.  The IndexMap of a structure is the    *)
(* sequence of its entries in insertion order; a field name is a sequence  *)
(* of characters.                                                          *)
(***************************************************************************)
\* MatVariable::fieldnames
fieldnames(v) ==
    CASE v.variant = "Structure" -> Some([i \in 1..Len(v.value) |-> v.value[i].name])
      [] v.variant = "StructureArray" -> Some(v.fieldnames)
      [] OTHER -> None

\* check_same_fields
check_same_fields(vec) ==
    IF vec = <<>> THEN FALSE
    ELSE \A i \in 1..Len(vec) : fieldnames(vec[i]) = fieldnames(vec[1])

\* StructureArray::from_structures: nothing but val[0] is looked at.
from_structures(dim, value) ==
    IF value = <<>> THEN Panic("index out of bounds")
    ELSE IF ~is_some(fieldnames(value[1])) THEN Panic("Cannot read field names")
    ELSE Ok(StructureArray(dim, fieldnames(value[1])[1], value))

(***************************************************************************)
(* A literal handed to matvar! is a leaf, an expression that is a variable *)
(* already, an array of literals, or a structure of keys and literals.     *)
(***************************************************************************)
Leaf(v) == [node |-> "leaf", v |-> v, items |-> <<>>]

Arr(items) == [node |-> "array", v |-> Null, items |-> items]

Struct(keys, items) == [node |-> "struct", v |-> Null, items |-> items, keys |-> keys]

\* matvar!: the rules ($other:expr), ([]), (@array ...), ({}) and
\* (@structure ...) of matvar_internal!.
RECURSIVE matvar(_)
matvar(lit) ==
    IF lit.node = "leaf" THEN Ok(lit.v)
    ELSE LET elements(elems) ==
                 IF \E i \in 1..Len(elems) : ~is_ok(elems[i])
                 THEN (CHOOSE r \in Range(elems) : ~is_ok(r))
                 ELSE LET v == [i \in 1..Len(elems) |-> elems[i].val]
                      IN  IF lit.node = "struct"
                          THEN Ok(Structure(structure_inserts(<<>>, lit.keys, v)))
                          ELSE IF v = <<>>
                          THEN expect(from_nested_matvar(<<0, 0>>, <<>>),
                                      "called Result::unwrap() on an Err value")
                          ELSE IF /\ \A i \in 1..Len(v) : v[i].variant = "NumericArray"
                                  /\ check_same_dim(v)
                                  /\ check_same_type(v)
                          THEN expect(from_nested_matvar(<<1, Len(v)>>, v),
                                      "called Result::unwrap() on an Err value")
                          ELSE IF /\ \A i \in 1..Len(v) : v[i].variant = "Structure"
                                  /\ check_same_fields(v)
                          THEN from_structures(<<1, Len(v)>>, v)
                          ELSE expect(CellArray_new(<<1, Len(v)>>, v),
                                      "called Result::unwrap() on an Err value")
         IN  elements([i \in 1..Len(lit.items) |-> matvar(lit.items[i])])

(***************************************************************************)
(* Sparse arrays.  ir and jc count from 0, as in the code.                 *)
(***************************************************************************)
\* Zero::is_zero: 0, 0.0, char::from(0) and false are the number 0.
is_zero(elem) == elem = Zero

\* The scalar a sparse array returns for a position it does not store.
null_type_of(value, is_comp) ==
    LET zero == MatlabType(value.kind, <<Zero>>)
    IN  NumericArray(<<1, 1>>, zero, IF is_comp THEN Some(zero) ELSE None)

\* SparseArray::new
SparseArray_new(dim, ir, jc, is_comp, value, value_cmp) ==
    IF dim # <<>> /\ Len(ir) # type_len(value) THEN Err("TypeConstruction")
    ELSE IF value.kind \notin {"BOOL", "F64"} THEN Panic("Should not be triggered")
    ELSE Ok([variant |-> "SparseArray", dim |-> dim, ir |-> ir, jc |-> jc,
             is_comp |-> is_comp, null_type |-> null_type_of(value, is_comp),
             value |-> value, value_cmp |-> value_cmp])

\* The loop over i of to_sparse_internal, within column j.
RECURSIVE to_sparse_rows(_, _, _, _, _)
to_sparse_rows(value, n_rows, j, i, acc) ==
    IF i >= n_rows THEN acc
    ELSE LET elem == value[i + j * n_rows + 1]
         IN  to_sparse_rows(value, n_rows, j, i + 1,
                            IF ~is_zero(elem)
                            THEN [acc EXCEPT !.v = Append(@, elem), !.ir = Append(@, i)]
                            ELSE acc)

\* The loop over j of to_sparse_internal.
RECURSIVE to_sparse_cols(_, _, _, _, _)
to_sparse_cols(value, n_rows, n_cols, j, acc) ==
    IF j >= n_cols THEN acc
    ELSE LET pushed(a) == [a EXCEPT !.jc = Append(@, Len(a.ir))]
         IN  to_sparse_cols(value, n_rows, n_cols, j + 1,
                            pushed(to_sparse_rows(value, n_rows, j, 0, acc)))

\* The walk that ends every column where it began.
to_sparse_internal_empty_columns(value, n_rows, n_cols) ==
    to_sparse_cols(value, 0, n_cols, 0, [ir |-> <<>>, jc |-> <<0>>, v |-> <<>>])

\* MatlabType::to_sparse_internal
to_sparse_internal(value, n_rows, n_cols) ==
    to_sparse_cols(value, n_rows, n_cols, 0, [ir |-> <<>>, jc |-> <<0>>, v |-> <<>>])

\* NumericArray::to_sparse; the imaginary part handed to SparseArray::new
\* is None.
NumericArray_to_sparse(a) ==
    IF Len(a.dim) > 2 THEN Ok(None)
    ELSE LET made(s) ==
                 LET new(r) == IF is_ok(r) THEN Ok(Some(r.val))
                               ELSE IF r.tag = "Err"
                               THEN Panic("called Result::unwrap() on an Err value")
                               ELSE r
                 IN  new(SparseArray_new(a.dim, s.ir, s.jc, is_complex(a),
                                         MatlabType(a.value.kind, s.v), None))
         IN  made(to_sparse_internal(a.value.items, a.dim[1], a.dim[2]))

\* MatVariable::to_sparse
to_sparse(v) ==
    IF v.variant = "NumericArray" THEN NumericArray_to_sparse(v) ELSE Ok(None)

\* impl ArrayType for SparseArray: get_clone_colmaj.  The index is taken
\* as a position in the buffer of stored entries.
SparseArray_get_clone_colmaj(a, index) ==
    LET cloned(re, im) ==
            IF ~is_ok(re) THEN re
            ELSE IF ~is_ok(im) THEN im
            ELSE LET new(r) == IF is_ok(r) THEN Ok(Some(r.val))
                               ELSE Panic("called Result::unwrap() on an Err value")
                 IN  new(NumericArray_new(<<1, 1>>, re.val, im.val))
    IN  IF is_some(a.value_cmp)
        THEN cloned(clone_at_index(a.value, index),
                    LET part(c) == IF is_ok(c) THEN Ok(Some(c.val)) ELSE c
                    IN  part(clone_at_index(a.value_cmp[1], index)))
        ELSE cloned(clone_at_index(a.value, index), Ok(None))

\* impl ArrayType for SparseArray: column_index.  The stored entry of
\* column idx[1] whose row is idx[0], if there is one.
SparseArray_column_index(a, idx) ==
    LET jc == a.jc[idx[2] + 1]
        nc == a.jc[idx[2] + 2] - jc
        found == {f \in jc..(jc + nc - 1) : a.ir[f + 1] = idx[1]}
    IN  IF found # {} THEN Some(CHOOSE l \in found : \A f \in found : l <= f) ELSE None

\* The stored entry looked up without regard to the row.
SparseArray_get_clone_multidim_any_row(a, idx) ==
    IF Len(idx) < 1 THEN Panic("index out of bounds")
    ELSE IF idx[1] >= a.dim[1] THEN Ok(None)
    ELSE IF Len(idx) < 2 THEN Panic("index out of bounds")
    ELSE IF idx[2] >= a.dim[2] THEN Ok(None)
    ELSE IF a.jc[idx[2] + 2] > a.jc[idx[2] + 1]
    THEN SparseArray_get_clone_colmaj(a, a.jc[idx[2] + 1])
    ELSE Ok(Some(a.null_type))

\* impl ArrayType for SparseArray: get_clone_multidim
SparseArray_get_clone_multidim(a, idx) ==
    IF Len(idx) < 1 THEN Panic("index out of bounds")
    ELSE IF idx[1] >= a.dim[1] THEN Ok(None)
    ELSE IF Len(idx) < 2 THEN Panic("index out of bounds")
    ELSE IF idx[2] >= a.dim[2] THEN Ok(None)
    ELSE LET at(colmaj_idx) ==
                 IF is_some(colmaj_idx)
                 THEN SparseArray_get_clone_colmaj(a, colmaj_idx[1])
                 ELSE Ok(Some(a.null_type))
         IN  at(SparseArray_column_index(a, idx))

\* Index::index_into_clone, for usize and for slices and arrays of usize
index_into_clone(index, v) ==
    IF index.form = "name" THEN Panic("not yet implemented")
    ELSE
    CASE v.variant = "NumericArray" ->
            IF index.form = "usize" THEN NumericArray_get_clone_colmaj(v, index.k)
            ELSE NumericArray_get_clone_multidim(v, index.idx)
      [] v.variant = "SparseArray" ->
            IF index.form = "usize" THEN SparseArray_get_clone_colmaj(v, index.k)
            ELSE SparseArray_get_clone_multidim(v, index.idx)
      [] OTHER -> Ok(None)

\* OwnedIndex::elem: unwrap_or(NULL.clone())
elem(v, index) ==
    LET got(r) == IF ~is_ok(r) THEN r
                  ELSE IF is_some(r.val) THEN Ok(r.val[1]) ELSE Ok(Null)
    IN  got(index_into_clone(index, v))

\* Structure::get
Structure_get(s, field) ==
    IF contains(s.value, field) THEN Some(s.value[get_index_of(s.value, field)].value)
    ELSE None

\* impl_Array_for!: get_ref_colmaj is self.value.get(index).
get_ref_colmaj(a, index) ==
    IF index < Len(a.value) THEN Some(a.value[index + 1]) ELSE None

\* ArrayType::get_ref_multidim
get_ref_multidim(a, idx) ==
    LET at(c) == IF is_some(c) THEN get_ref_colmaj(a, c[1]) ELSE None
    IN  at(column_index(a.dim, idx))

\* Index::index_into_ref of usize, of arrays and slices of usize, of &str.
index_into_ref(index, v) ==
    CASE index.form = "name" ->
            IF v.variant = "Structure" THEN Structure_get(v, index.name) ELSE None
      [] index.form = "usize" ->
            IF v.variant \in {"CellArray", "StructureArray"}
            THEN get_ref_colmaj(v, index.k) ELSE None
      [] OTHER ->
            IF v.variant \in {"CellArray", "StructureArray"}
            THEN get_ref_multidim(v, index.idx) ELSE None

\* ops::Index::index: unwrap_or(&NULL)
ops_index(v, i) ==
    LET borrowed(r) == IF is_some(r) THEN r[1] ELSE Null
    IN  borrowed(index_into_ref(i, v))

(***************************************************************************)
(* Nested literals: a literal is built by matvar!, or its children are and *)
(* are handed to NumericArray::from_nested_matvar with a dimension, and    *)
(* the variable built is indexed.  The leaves of a regular literal are     *)
(* numbered from 1 in reading order; the imaginary part of leaf i is       *)
(* 100 + i.                                                                *)
(***************************************************************************)
MaxDim == 3

NumberLeaf(kind, complex, i) ==
    Leaf(NumericArray(<<1, 1>>, MatlabType(kind, <<IntNum(i)>>),
                      IF complex THEN Some(MatlabType(kind, <<IntNum(100 + i)>>)) ELSE None))

RECURSIVE Lit(_, _, _, _)
Lit(shape, base, kind, complex) ==
    IF shape = <<>> THEN NumberLeaf(kind, complex, base + 1)
    ELSE Arr([i \in 1..shape[1] |->
                 Lit(Tail(shape), base + (i - 1) * Product(Tail(shape)), kind, complex)])

Shapes == [1..1 -> 1..MaxDim] \cup [1..2 -> 1..MaxDim] \cup [1..3 -> 1..MaxDim]

Flavours == {<<"F64", FALSE>>, <<"I32", FALSE>>, <<"F64", TRUE>>}

RegularLiterals == {Lit(s, 0, f[1], f[2]) : s \in Shapes, f \in Flavours}

\* NumericArray::new(vec![], MatlabType::new(), None): a row of no element.
EmptyRow == NumericArray(<<1, 0>>, MatlabType_new, None)

\* A column vector as a leaf.
ColumnLeaf(base, complex) ==
    Leaf(NumericArray(<<2, 1>>, MatlabType("F64", <<IntNum(base + 1), IntNum(base + 2)>>),
                      IF complex
                      THEN Some(MatlabType("F64", <<IntNum(base + 101), IntNum(base + 102)>>))
                      ELSE None))

\* An f64 array of the given shape built by NumericArray::new, its elements
\* base + 1, base + 2, ... in column-major order.
ShapedLeaf(shape, base) ==
    Leaf(NumericArray(shape, MatlabType("F64", [i \in 1..Product(shape) |-> IntNum(base + i)]),
                      None))

IrregularLiterals ==
    {Arr(<<>>),
     Arr(<<Arr(<<>>), Arr(<<>>)>>),
     Arr(<<Leaf(EmptyRow), Leaf(EmptyRow)>>),
     Arr(<<Lit(<<2>>, 0, "F64", FALSE), Lit(<<1>>, 2, "F64", FALSE)>>),
     Arr(<<NumberLeaf("F64", FALSE, 1), NumberLeaf("I32", FALSE, 2)>>),
     Arr(<<Lit(<<2>>, 0, "F64", FALSE), Lit(<<2>>, 2, "I32", FALSE)>>),
     Arr(<<Lit(<<2>>, 0, "F64", FALSE), Lit(<<2>>, 2, "F64", TRUE)>>),
     Arr(<<NumberLeaf("F64", FALSE, 1), NumberLeaf("F64", TRUE, 2)>>),
     Arr(<<NumberLeaf("F64", TRUE, 1), NumberLeaf("F64", FALSE, 2)>>),
     Arr(<<ColumnLeaf(0, FALSE), ColumnLeaf(2, FALSE)>>),
     Arr(<<ColumnLeaf(0, TRUE), ColumnLeaf(2, TRUE)>>),
     Arr(<<Lit(<<2>>, 0, "F64", TRUE), Lit(<<2>>, 2, "I32", TRUE)>>),
     Arr(<<ColumnLeaf(0, FALSE), Leaf(NumericArray(<<2, 1>>, MatlabType("I32", <<IntNum(3), IntNum(4)>>), None))>>),
     Arr(<<Lit(<<2, 2>>, 0, "F64", FALSE), Lit(<<2, 2>>, 4, "I32", FALSE)>>),
     Arr(<<Lit(<<2, 2>>, 0, "F64", FALSE), Lit(<<2, 2>>, 4, "F64", TRUE)>>),
     Arr(<<NumberLeaf("F64", FALSE, 1), Struct(<<<<"a">>>>, <<NumberLeaf("F64", FALSE, 2)>>)>>),
     Arr(<<Struct(<<<<"a">>>>, <<NumberLeaf("F64", FALSE, 1)>>), NumberLeaf("F64", FALSE, 2)>>),
     Arr(<<Struct(<<<<"a">>>>, <<NumberLeaf("F64", FALSE, 1)>>),
           Struct(<<<<"a">>>>, <<NumberLeaf("F64", FALSE, 2)>>)>>),
     Arr(<<Struct(<<<<"a">>>>, <<NumberLeaf("F64", FALSE, 1)>>),
           Struct(<<<<"b">>>>, <<NumberLeaf("F64", FALSE, 2)>>)>>),
     Arr(<<Lit(<<2>>, 0, "F64", FALSE), Leaf(Null)>>),
     Arr(<<Leaf(Null), NumberLeaf("F64", FALSE, 1)>>),
     Arr(<<Lit(<<2>>, 0, "F64", FALSE),
           Arr(<<Lit(<<2>>, 0, "F64", FALSE), NumberLeaf("F64", FALSE, 7)>>)>>),
     Arr(<<Lit(<<2>>, 0, "F64", FALSE), NumberLeaf("F64", FALSE, 7)>>),
     Arr(<<ShapedLeaf(<<1, 2, 2>>, 0), ShapedLeaf(<<1, 2, 2>>, 4)>>),
     Arr(<<ShapedLeaf(<<2, 1, 2>>, 0), ShapedLeaf(<<2, 1, 2>>, 4)>>)}

NestedLiterals == RegularLiterals \cup IrregularLiterals

\* The children of a literal, each built by matvar!.
ChildrenOf(lit) == [i \in 1..Len(lit.items) |-> matvar(lit.items[i])]

\* The dimensions a caller hands over with n children.
DimHints(n) == {<<>>, <<n>>, <<1, n>>, <<n, 1>>}

\* The indices tried: every column-major position of the largest array and
\* the one behind it, and every index of up to three components.
Indices ==
    {IndexUsize(k) : k \in 0..(MaxDim * MaxDim * MaxDim)}
        \cup {IndexMulti(idx) : idx \in [1..1 -> 0..MaxDim] \cup [1..2 -> 0..MaxDim]
                                           \cup [1..3 -> 0..MaxDim]}

InitNested ==
    /\ matfile = <<>>
    /\ file = None
    /\ loaded = None
    /\ input \in {Some(lit) : lit \in NestedLiterals}
    /\ var = Null
    /\ result = [op |-> "none"]
    /\ pc = "run"

\* What a constructor call leaves: the variable if it returned one.
Constructed(op, r) ==
    /\ var' = IF is_ok(r) THEN r.val ELSE Null
    /\ result' = [op |-> op, outcome |-> r.tag]
    /\ pc' = CASE r.tag = "Ok" -> "built" [] r.tag = "Err" -> "failed" [] OTHER -> "aborted"
    /\ UNCHANGED <<matfile, file, loaded, input>>

\* matvar!(literal)
Matvar ==
    /\ pc = "run"
    /\ Constructed("matvar", matvar(input[1]))

\* NumericArray::from_nested_matvar(dim, children), the children built by
\* matvar!.
FromNestedMatvar(dim) ==
    /\ pc = "run"
    /\ input[1].node = "array"
    /\ LET called(children) ==
               /\ \A i \in 1..Len(children) : is_ok(children[i])
               /\ Constructed("from_nested_matvar",
                              from_nested_matvar(dim, [i \in 1..Len(children) |->
                                                          children[i].val]))
       IN  called(ChildrenOf(input[1]))

\* variable.elem(index)
Elem(index) ==
    /\ pc \in {"built", "borrowed"}
    /\ LET returned(r) ==
               /\ result' = [op |-> "elem", index |-> index, outcome |-> r.tag,
                             val |-> IF is_ok(r) THEN r.val ELSE Null]
               /\ pc' = IF is_ok(r) THEN "indexed" ELSE "aborted"
       IN  returned(elem(var, index))
    /\ UNCHANGED <<matfile, file, loaded, input, var>>

NextNested ==
    \/ Matvar
    \/ \E dim \in DimHints(Len(input[1].items)) : FromNestedMatvar(dim)
    \/ \E index \in Indices : Elem(index)

SpecNested == InitNested /\ [][NextNested]_vars

(***************************************************************************)
(* Claims about the nested-literal constructor and the indexing.           *)
(***************************************************************************)
\* The children, each the outcome of matvar!, are row vectors of common
\* shape [1, k].
RowVectors(children, k) ==
    /\ children # <<>>
    /\ \A i \in 1..Len(children) :
          /\ is_ok(children[i])
          /\ children[i].val.variant = "NumericArray"
          /\ children[i].val.dim = <<1, k>>

\* The 1x1 array holding element c of a child, counted from 0.
ElementOfChild(child, c) ==
    NumericArray(<<1, 1>>, MatlabType(child.value.kind, <<child.value.items[c + 1]>>),
                 IF is_complex(child)
                 THEN Some(MatlabType(child.value_cmp[1].kind,
                                      <<child.value_cmp[1].items[c + 1]>>))
                 ELSE None)

\* The array built from n row vectors [1, k] has dimension [n, k], and the
\* scalar index just used, c * n + r, returned element c of child r.
RowsAssembled(children, k) ==
    LET n == Len(children)
    IN  /\ var.dim = <<n, k>>
        /\ (result.op = "elem" /\ result.index.form = "usize" /\ result.index.k < n * k) =>
               /\ result.outcome = "Ok"
               /\ result.val = ElementOfChild(children[(result.index.k % n) + 1].val,
                                              result.index.k \div n)

\* A numeric array has been built from the children of an array literal.
BuiltFromChildren ==
    /\ pc \in {"built", "indexed"}
    /\ var.variant = "NumericArray"
    /\ input[1].node = "array"

\* The literal [[1,2],[3,4]] of f64.
Literal2x2 == Lit(<<2, 2>>, 0, "F64", FALSE)

\* The example of C4: [[1,2],[3,4]] indexed by 0, 1, 2, 3 yields 1, 3, 2, 4.
Example2x2 ==
    (input = Some(Literal2x2) /\ result.op = "elem" /\ result.index.form = "usize"
        /\ result.index.k < 4) =>
        result.val = scalar("F64", <<1, 3, 2, 4>>[result.index.k + 1])

RECURSIVE ColumnMajorOffset(_, _)
ColumnMajorOffset(idx, dim) ==
    IF idx = <<>> THEN 0
    ELSE Head(idx) + Head(dim) * ColumnMajorOffset(Tail(idx), Tail(dim))

\* The 1x1 array holding the element of a at a buffer position from 0.
ElementAt(a, offset) ==
    NumericArray(<<1, 1>>, MatlabType(a.value.kind, <<a.value.items[offset + 1]>>),
                 IF is_complex(a)
                 THEN Some(MatlabType(a.value_cmp[1].kind, <<a.value_cmp[1].items[offset + 1]>>))
                 ELSE None)

\* The literal [[[1,2],[3,4]],[[5,6],[7,8]]] of f64.
Literal2x2x2 == Lit(<<2, 2, 2>>, 0, "F64", FALSE)

\* C5: a multi-dimensional index [i1, ..., in] within a numeric array of
\* dimension [d1, ..., dn] returns the element stored at column-major
\* offset i1 + i2*d1 + i3*d1*d2 + ...; for the array built from
\* [[[1,2],[3,4]],[[5,6],[7,8]]], index [1,0,1] returns 7.
C5_MultiDimIndex ==
    /\ (result.op = "elem" /\ result.index.form = "multi" /\ var.variant = "NumericArray"
           /\ Len(result.index.idx) = Len(var.dim)
           /\ \A i \in 1..Len(var.dim) : result.index.idx[i] < var.dim[i]) =>
           /\ result.outcome = "Ok"
           /\ result.val = ElementAt(var, ColumnMajorOffset(result.index.idx, var.dim))
    /\ (input = Some(Literal2x2x2) /\ result.op = "elem"
           /\ result.index = IndexMulti(<<1, 0, 1>>)) =>
           result.val = scalar("F64", 7)

\* Index [1,0,1] of the array built from [[[1,2],[3,4]],[[5,6],[7,8]]], of
\* dimension [2,2,2], returned 7.
C5_Witness ==
    /\ input = Some(Literal2x2x2)
    /\ var.variant = "NumericArray"
    /\ var.dim = <<2, 2, 2>>
    /\ result.op = "elem"
    /\ result.index = IndexMulti(<<1, 0, 1>>)
    /\ result.val = scalar("F64", 7)

(***************************************************************************)
(* SpecSparse: a dense array is converted by to_sparse and the sparse      *)
(* array is indexed.  The dense arrays have every dimension up to MaxSide  *)
(* by MaxSide and every pattern of zeros; the element at column-major      *)
(* position p, from 1, is p where it is not zero (true for bool), and the  *)
(* imaginary part of a complex array is 100 + p everywhere.                *)
(***************************************************************************)
MaxSide == 2

DenseFlavours == {<<"F64", FALSE>>, <<"F64", TRUE>>, <<"BOOL", FALSE>>, <<"I32", FALSE>>}

Dense(rows, cols, kind, complex, nonzero) ==
    NumericArray(<<rows, cols>>,
                 MatlabType(kind, [p \in 1..(rows * cols) |->
                                      IF ~nonzero[p] THEN Zero
                                      ELSE IF kind = "BOOL" THEN IntNum(1) ELSE IntNum(p)]),
                 IF complex
                 THEN Some(MatlabType(kind, [p \in 1..(rows * cols) |-> IntNum(100 + p)]))
                 ELSE None)

MaskedArrays ==
    UNION { { Dense(rows, cols, f[1], f[2], nonzero) :
                  nonzero \in [1..(rows * cols) -> BOOLEAN], f \in DenseFlavours } :
            rows \in 0..MaxSide, cols \in 0..MaxSide }

\* The f64 array [1,0,4; 0,3,5; 0,0,6], in column-major order.
ScenarioD ==
    NumericArray(<<3, 3>>,
                 MatlabType("F64", <<IntNum(1), Zero, Zero, Zero, IntNum(3), Zero,
                                     IntNum(4), IntNum(5), IntNum(6)>>),
                 None)

\* An array of three dimensions.
Dense3D ==
    NumericArray(<<1, 1, 2>>, MatlabType("F64", <<IntNum(1), IntNum(2)>>), None)

DenseArrays == MaskedArrays \cup {ScenarioD, Dense3D}

\* The indices tried on a sparse array: the positions of the largest array
\* and behind it, every pair, and an index of one and of three components.
SparseIndices ==
    {IndexUsize(k) : k \in 0..((MaxSide + 1) * (MaxSide + 1))}
        \cup {IndexMulti(idx) : idx \in [1..2 -> 0..(MaxSide + 1)]}
        \cup {IndexMulti(<<0>>), IndexMulti(<<0, 0, 0>>)}

InitSparse ==
    /\ matfile = <<>>
    /\ file = None
    /\ loaded = None
    /\ input \in {Some(a) : a \in DenseArrays}
    /\ var = Null
    /\ result = [op |-> "none"]
    /\ pc = "run"

\* dense.to_sparse()
ToSparse ==
    /\ pc = "run"
    /\ LET returned(r) ==
               /\ var' = IF is_ok(r) /\ is_some(r.val) THEN r.val[1] ELSE Null
               /\ result' = [op |-> "to_sparse", outcome |-> r.tag]
               /\ pc' = IF ~is_ok(r) THEN "aborted"
                        ELSE IF is_some(r.val) THEN "built" ELSE "failed"
       IN  returned(to_sparse(input[1]))
    /\ UNCHANGED <<matfile, file, loaded, input>>

NextSparse ==
    \/ ToSparse
    \/ \E index \in SparseIndices : Elem(index)

SpecSparse == InitSparse /\ [][NextSparse]_vars

(***************************************************************************)
(* Claims about sparse arrays.                                             *)
(***************************************************************************)
\* A dense array has been converted, and var is the sparse array.
Converted ==
    /\ pc \in {"built", "indexed"}
    /\ var.variant = "SparseArray"

\* The element of the dense array at row i and column j, from 0.
DenseAt(i, j) == input[1].value.items[i + j * input[1].dim[1] + 1]

\* The stored entries, from 0, within column j's range whose row is i.
StoredAt(i, j) == {f \in var.jc[j + 1]..(var.jc[j + 2] - 1) : var.ir[f + 1] = i}

C8_SparseScalarIndex ==
    (Converted /\ result.op = "elem" /\ result.index.form = "usize"
        /\ result.index.k < input[1].dim[1] * input[1].dim[2]) =>
        /\ result.outcome = "Ok"
        /\ result.val.value = elem(input[1], result.index).val.value

\* C8, the failing input: the f64 array [0, 2] of dimension [1, 2] was
\* converted, and index 0 returned 2, the first stored entry, where the
\* dense array returns 0.
C8_Witness ==
    /\ input = Some(Dense(1, 2, "F64", FALSE, <<FALSE, TRUE>>))
    /\ Converted
    /\ result.op = "elem"
    /\ result.index = IndexUsize(0)
    /\ result.val = scalar("F64", 2)
    /\ elem(input[1], result.index).val = scalar("F64", 0)

(***************************************************************************)
(* Specification SpecTree: a literal of numbers, structures and arrays of  *)
(* them is built by matvar!, or its children are handed to                 *)
(* StructureArray::from_structures, and the variable built is indexed.     *)
(***************************************************************************)
MaxFields == 2

MaxElems == 2

FieldNames == {<<"a">>, <<"b">>}

\* The structure literals: every list of up to MaxFields keys, the value of
\* the i-th key the f64 scalar i.
StructLits ==
    {Struct(keys, [i \in 1..Len(keys) |-> NumberLeaf("F64", FALSE, i)]) :
        keys \in UNION {[1..n -> FieldNames] : n \in 0..MaxFields}}

ElementLits ==
    StructLits \cup {NumberLeaf("F64", FALSE, 7), NumberLeaf("I32", FALSE, 8),
                     Lit(<<2>>, 0, "F64", FALSE)}

\* Literals of deeper nesting: a structure holding a row vector inside a
\* cell array, a structure holding a structure, a nested array of structures.
DeepLits ==
    {Arr(<<Struct(<<<<"a">>>>, <<Lit(<<2>>, 0, "F64", FALSE)>>), NumberLeaf("I32", FALSE, 8)>>),
     Struct(<<<<"a">>>>, <<Struct(<<<<"b">>>>, <<NumberLeaf("F64", FALSE, 1)>>)>>),
     Arr(<<Arr(<<Struct(<<<<"a">>>>, <<NumberLeaf("F64", FALSE, 1)>>),
                 Struct(<<<<"a">>>>, <<NumberLeaf("F64", FALSE, 2)>>)>>),
           NumberLeaf("F64", FALSE, 3)>>)}

TreeLiterals ==
    ElementLits
        \cup {Arr(items) : items \in UNION {[1..n -> ElementLits] : n \in 0..MaxElems}}

InitTree ==
    /\ matfile = <<>>
    /\ file = None
    /\ loaded = None
    /\ input \in {Some(lit) : lit \in TreeLiterals}
    /\ var = Null
    /\ result = [op |-> "none"]
    /\ pc = "run"

\* StructureArray::from_structures(dim, children), the children built by
\* matvar!.
FromStructures(dim) ==
    /\ pc = "run"
    /\ input[1].node = "array"
    /\ LET called(children) ==
               /\ \A i \in 1..Len(children) : is_ok(children[i])
               /\ Constructed("from_structures",
                              from_structures(dim, [i \in 1..Len(children) |->
                                                       children[i].val]))
       IN  called(ChildrenOf(input[1]))

NextTree ==
    \/ Matvar
    \/ \E dim \in DimHints(Len(input[1].items)) : FromStructures(dim)

SpecTree == InitTree /\ [][NextTree]_vars

\* The children of the literal are structures, one at least.
StructuresGiven(children) ==
    /\ children # <<>>
    /\ \A i \in 1..Len(children) : is_ok(children[i]) /\ children[i].val.variant = "Structure"

\* The field names of a structure, in order.
NamesOf(s) == [i \in 1..Len(s.value) |-> s.value[i].name]

\* C11: a structure array built from structures whose field-name sets differ
\* is rejected (no structure array comes back), and one built from structures
\* with the same field names in the same order is a structure array over
\* those structures whose field list is that of the inputs.
C11_StructArrayHomogeneity ==
    (pc # "run" /\ result.op \in {"matvar", "from_structures"} /\ input[1].node = "array") =>
        LET claim(children) ==
                StructuresGiven(children) =>
                    IF \A i \in 1..Len(children) :
                          NamesOf(children[i].val) = NamesOf(children[1].val)
                    THEN /\ result.outcome = "Ok"
                         /\ var.variant = "StructureArray"
                         /\ var.fieldnames = NamesOf(children[1].val)
                         /\ var.value = [i \in 1..Len(children) |-> children[i].val]
                    ELSE (\E i \in 1..Len(children) :
                             Range(NamesOf(children[i].val)) # Range(NamesOf(children[1].val)))
                            => ~(result.outcome = "Ok" /\ var.variant = "StructureArray")
        IN  claim(ChildrenOf(input[1]))

\* from_structures has returned a structure array one of whose structures
\* has other fields than the array's field list.
C11_Witness ==
    /\ result.op = "from_structures"
    /\ result.outcome = "Ok"
    /\ var.variant = "StructureArray"
    /\ \E i \in 1..Len(var.value) :
          /\ var.value[i].variant = "Structure"
          /\ Range(NamesOf(var.value[i])) # Range(var.fieldnames)

(***************************************************************************)
(* Specification SpecIndex: a variable of each variant is built and then   *)
(* indexed, on the clone path (elem) and on the borrow path ([]), the      *)
(* variable borrowed being the one indexed next.                           *)
(***************************************************************************)
MaxIndex == 2

\* The sparse form of the f64 array [1,0; 0,4].
SparseLeaf ==
    Leaf(NumericArray_to_sparse(
             NumericArray(<<2, 2>>, MatlabType("F64", <<IntNum(1), Zero, Zero, IntNum(4)>>),
                          None)).val[1])

IndexedLiterals ==
    DeepLits \cup
    {Arr(<<>>),
     Lit(<<2>>, 0, "F64", FALSE),
     Lit(<<2, 2>>, 0, "I32", TRUE),
     Lit(<<2, 1, 2>>, 0, "F64", FALSE),
     SparseLeaf,
     Arr(<<Lit(<<2>>, 0, "F64", FALSE), NumberLeaf("F64", FALSE, 7)>>),
     Arr(<<Struct(<<<<"a">>>>, <<NumberLeaf("F64", FALSE, 1)>>),
           Struct(<<<<"a">>>>, <<NumberLeaf("F64", FALSE, 2)>>)>>),
     Struct(<<<<"a">>, <<"b">>>>, <<NumberLeaf("F64", FALSE, 1), NumberLeaf("F64", FALSE, 2)>>),
     Struct(<<>>, <<>>)}

\* The indices tried: scalar indices, indices of one to three components,
\* and the names a, b and c.
TreeIndices ==
    {IndexUsize(k) : k \in 0..(MaxIndex * MaxIndex)}
        \cup {IndexMulti(idx) : idx \in UNION {[1..n -> 0..MaxIndex] : n \in 1..3}}
        \cup {IndexName(name) : name \in FieldNames \cup {<<"c">>}}

InitIndex ==
    /\ matfile = <<>>
    /\ file = None
    /\ loaded = None
    /\ input \in {Some(lit) : lit \in IndexedLiterals}
    /\ var = Null
    /\ result = [op |-> "none"]
    /\ pc = "run"

\* &variable[index]: the variable borrowed is the one indexed next.
IndexRef(i) ==
    /\ pc \in {"built", "borrowed"}
    /\ LET borrowed(r) ==
               /\ var' = r
               /\ result' = [op |-> "index", index |-> i, outcome |-> "Ok", val |-> r]
       IN  borrowed(ops_index(var, i))
    /\ pc' = "borrowed"
    /\ UNCHANGED <<matfile, file, loaded, input>>

\* &matfile!(a: variable)[name]: the container holds the variable built
\* under the name a and is indexed by a name.
FileIndex(name) ==
    /\ pc = "built"
    /\ LET held(data) ==
               /\ matfile' = data
               /\ var' = matfile_index(data, name)
               /\ result' = [op |-> "file_index", index |-> IndexName(name),
                             outcome |-> "Ok", val |-> matfile_index(data, name)]
       IN  held(insert(matfile, <<"a">>, var).data)
    /\ pc' = "borrowed"
    /\ UNCHANGED <<file, loaded, input>>

NextIndex ==
    \/ Matvar
    \/ \E i \in TreeIndices : Elem(i)
    \/ \E i \in TreeIndices : IndexRef(i)
    \/ \E name \in FieldNames : FileIndex(name)

SpecIndex == InitIndex /\ [][NextIndex]_vars

\* The number of elements a scalar index ranges over.
ElementCount(v) ==
    CASE v.variant = "NumericArray" -> Len(v.value.items)
      [] v.variant = "SparseArray" -> Product(v.dim)
      [] OTHER -> Len(v.value)

\* The index is out of the range of the array v, or of the wrong rank.
OutOfRange(v, i) ==
    IF i.form = "usize" THEN i.k >= ElementCount(v)
    ELSE \/ Len(i.idx) # Len(v.dim)
         \/ \E d \in 1..Len(i.idx) : i.idx[d] >= v.dim[d]

\* C12: indexing a numeric, sparse, cell or structure array with a scalar or
\* multi-dimensional index that is out of range or of the wrong rank returns
\* Null, on the clone path and on the borrow path, and never aborts.
C12_OutOfRangeIsNull ==
    [][(/\ pc \in {"built", "borrowed"}
        /\ result'.op \in {"elem", "index"}
        /\ var.variant \in {"NumericArray", "SparseArray", "CellArray", "StructureArray"}
        /\ result'.index.form \in {"usize", "multi"}
        /\ OutOfRange(var, result'.index))
            => (result'.outcome = "Ok" /\ result'.val = Null)]_vars

\* elem with a scalar index behind the last element of a numeric array has
\* aborted.
C12_Witness ==
    /\ result.op = "elem"
    /\ result.outcome = "Panic"
    /\ var.variant = "NumericArray"
    /\ result.index.form = "usize"
    /\ result.index.k >= Len(var.value.items)

\* C13: indexing by a name that is absent (a field name on any variable, by
\* elem or by [], or a variable name on the container) returns Null and does
\* not abort.
C13_AbsentNameIsNull ==
    [][(/\ pc \in {"built", "borrowed"}
        /\ result'.op \in {"elem", "index", "file_index"}
        /\ result'.index.form = "name"
        /\ IF result'.op = "file_index"
           THEN ~contains(matfile', result'.index.name)
           ELSE ~(var.variant = "Structure" /\ contains(var.value, result'.index.name)))
            => (result'.outcome = "Ok" /\ result'.val = Null)]_vars

\* elem with a name that is no field of the variable has aborted.
C13_Witness ==
    /\ result.op = "elem"
    /\ result.index.form = "name"
    /\ result.outcome = "Panic"
    /\ ~(var.variant = "Structure" /\ contains(var.value, result.index.name))

(***************************************************************************)
(* Typed extraction.  T is the Rust type asked for; an accessor returns    *)
(* Ok(option) or ends in a panic.                                          *)
(***************************************************************************)
\* MatlabType::get::<T>(index): T::inner_ref(self).unwrap().get(index)
MatlabType_get(value, T, k) ==
    IF ~is_some(inner(value, T)) THEN Panic("called Option::unwrap() on a None value")
    ELSE Ok(IF k < Len(value.items) THEN Some(value.items[k + 1]) ELSE None)

\* NumericArray::real_to_vec
real_to_vec(a, T) == Ok(inner(a.value, T))

\* NumericArray::real_to_scalar: Some(*self.value.get(0).unwrap())
real_to_scalar(a, T) ==
    LET first(g) == IF ~is_ok(g) THEN g
                    ELSE IF ~is_some(g.val)
                    THEN Panic("called Option::unwrap() on a None value")
                    ELSE Ok(Some(g.val[1]))
    IN  first(MatlabType_get(a.value, T, 0))

is_scalar_always(a) == TRUE

\* NumericArray::is_scalar
is_scalar(a) == Product(a.dim) = 1

\* NumericArray::comp_to_vec: the inner unwrap is reached only if there is
\* an imaginary part.
NumericArray_comp_to_vec(a, T) ==
    IF ~is_some(a.value_cmp) THEN Ok(None)
    ELSE IF ~is_some(inner(a.value_cmp[1], T))
    THEN Panic("called Option::unwrap() on a None value")
    ELSE Ok(Some(a.value_cmp[1].items))

\* NumericArray::comp_to_scalar: the outer unwrap is on the Option of the
\* imaginary part, the inner one on its first element.
NumericArray_comp_to_scalar(a, T) ==
    IF ~is_some(a.value_cmp) THEN Panic("called Option::unwrap() on a None value")
    ELSE LET first(g) == IF ~is_ok(g) THEN g
                         ELSE IF ~is_some(g.val)
                         THEN Panic("called Option::unwrap() on a None value")
                         ELSE Ok(Some(g.val[1]))
         IN  first(MatlabType_get(a.value_cmp[1], T, 0))

\* MatVariable::to_scalar::<T>
to_scalar(v, T) ==
    IF v.variant = "NumericArray" THEN real_to_scalar(v, T) ELSE Ok(None)

\* MatVariable::comp_to_scalar::<T>
comp_to_scalar(v, T) ==
    IF v.variant = "NumericArray" THEN NumericArray_comp_to_scalar(v, T) ELSE Ok(None)

\* MatVariable::to_vec::<T> and the accessors to_vec_<T>
to_vec(v, T) ==
    IF v.variant = "NumericArray" THEN real_to_vec(v, T) ELSE Ok(None)

\* MatVariable::comp_to_vec::<T> and the accessors comp_to_vec_<T>
comp_to_vec(v, T) ==
    IF v.variant = "NumericArray" THEN NumericArray_comp_to_vec(v, T) ELSE Ok(None)

\* The accessors to_<T> of impl_MatVariable_to!
to_kind(v, T) ==
    IF v.variant = "NumericArray" /\ is_scalar(v) THEN real_to_scalar(v, T) ELSE Ok(None)

\* The accessors comp_to_<T> of impl_MatVariable_comp_to!
comp_to_kind(v, T) ==
    IF v.variant = "NumericArray" /\ is_scalar(v) THEN NumericArray_comp_to_scalar(v, T)
    ELSE Ok(None)

(***************************************************************************)
(* Specification SpecAccess: a variable is held and one accessor is called *)
(* on it.                                                                  *)
(***************************************************************************)
AccessKinds == {"F64", "I32", "UTF8", "BOOL"}

AccessTypes == {marker_type(kind) : kind \in AccessKinds}

\* Row vectors of 0..MaxLen elements, the i-th element i (1 for a bool),
\* the imaginary part 100 + i.
AccessArrays ==
    {NumericArray_new(<<1, n>>,
                      MatlabType(kind, [i \in 1..n |-> IF kind = "BOOL" THEN IntNum(1)
                                                       ELSE IntNum(i)]),
                      IF complex
                      THEN Some(MatlabType(kind, [i \in 1..n |-> IntNum(100 + i)]))
                      ELSE None).val :
        kind \in AccessKinds, complex \in BOOLEAN, n \in 0..MaxLen}

AccessVariables ==
    AccessArrays \cup {Null, Structure(<<>>), CellArray(<<1, 1>>, <<scalar("F64", 1)>>)}

Accessors == {"to_scalar", "comp_to_scalar", "to_vec", "comp_to_vec", "to_kind", "comp_to_kind"}

InitAccess ==
    /\ matfile = <<>>
    /\ file = None
    /\ loaded = None
    /\ input = None
    /\ var \in AccessVariables
    /\ result = [op |-> "none"]
    /\ pc = "built"

\* variable.<accessor>::<T>()
Extract(accessor, T) ==
    /\ pc = "built"
    /\ LET returned(r) ==
               /\ result' = [op |-> accessor, T |-> T, outcome |-> r.tag,
                             val |-> IF is_ok(r) THEN r.val ELSE None]
               /\ pc' = IF is_ok(r) THEN "extracted" ELSE "aborted"
       IN  returned(CASE accessor = "to_scalar" -> to_scalar(var, T)
                      [] accessor = "comp_to_scalar" -> comp_to_scalar(var, T)
                      [] accessor = "to_vec" -> to_vec(var, T)
                      [] accessor = "comp_to_vec" -> comp_to_vec(var, T)
                      [] accessor = "to_kind" -> to_kind(var, T)
                      [] OTHER -> comp_to_kind(var, T))
    /\ UNCHANGED <<matfile, file, loaded, input, var>>

NextAccess == \E accessor \in Accessors, T \in AccessTypes : Extract(accessor, T)

SpecAccess == InitAccess /\ [][NextAccess]_vars

\* The buffer an accessor reads: the imaginary part for the comp_ accessors.
PartRead(a, accessor) ==
    IF accessor \in {"comp_to_scalar", "comp_to_vec", "comp_to_kind"} THEN a.value_cmp
    ELSE Some(a.value)

\* An accessor has been called on a numeric array.
Extracted(accessors) ==
    /\ pc \in {"extracted", "aborted"}
    /\ result.op \in accessors
    /\ var.variant = "NumericArray"

C15_TypedExtractionTotal ==
    Extracted(Accessors) =>
        LET part == PartRead(var, result.op)
        IN  /\ result.outcome = "Ok"
            /\ ~is_some(part) => result.val = None
            /\ (is_some(part) /\ marker_type(part[1].kind) # result.T) => result.val = None
            /\ (is_some(part) /\ marker_type(part[1].kind) = result.T) =>
                  IF result.op \in {"to_vec", "comp_to_vec"}
                  THEN result.val = Some(part[1].items)
                  ELSE Len(part[1].items) = 1 => result.val = Some(part[1].items[1])

\* A scalar accessor of another kind than the array's has aborted.
C15_Witness ==
    /\ Extracted({"to_kind"})
    /\ Len(var.value.items) = 1
    /\ marker_type(var.value.kind) # result.T
    /\ result.outcome = "Panic"

\* The children are numeric arrays of one dimension and one element kind:
\* the case in which matvar! assembles a numeric array.
Homogeneous(children) ==
    \A i \in 1..Len(children) :
        /\ children[i].val.variant = "NumericArray"
        /\ children[i].val.dim = children[1].val.dim
        /\ children[i].val.value.kind = children[1].val.value.kind

\* C16: when the children of a nested literal are of mixed element kinds or
\* of mixed structure, matvar! returns a structure array if every child is
\* a structure and all have the same fields in the same order, and
\* otherwise a cell array of dimension [1, n] holding the children in
\* order; numeric children of differing element kinds produce a cell array.
C16_MixedChildrenDemoted ==
    (pc # "run" /\ result.op = "matvar" /\ input[1].node = "array") =>
        LET claim(children) ==
                (/\ children # <<>>
                 /\ \A i \in 1..Len(children) : is_ok(children[i])
                 /\ ~Homogeneous(children))
                    => LET v == [i \in 1..Len(children) |-> children[i].val]
                       IN  /\ result.outcome = "Ok"
                           /\ IF \A i \in 1..Len(v) :
                                    /\ v[i].variant = "Structure"
                                    /\ NamesOf(v[i]) = NamesOf(v[1])
                              THEN var = StructureArray(<<1, Len(v)>>, NamesOf(v[1]), v)
                              ELSE var = CellArray(<<1, Len(v)>>, v)
        IN  claim(ChildrenOf(input[1]))

\* matvar! has aborted on numeric scalars of differing element kinds.
C16_Witness ==
    /\ pc = "aborted"
    /\ result.op = "matvar"
    /\ input[1].node = "array"
    /\ Len(input[1].items) = 2
    /\ \A i \in 1..2 : /\ input[1].items[i].node = "leaf"
                       /\ input[1].items[i].v.variant = "NumericArray"
                       /\ input[1].items[i].v.dim = <<1, 1>>
    /\ input[1].items[1].v.value.kind # input[1].items[2].v.value.kind

\* The children differ in element kind or in complex status, or one of them
\* is not a numeric array.
Inhomogeneous(children) ==
    \E i \in 1..Len(children) :
        \/ children[i].val.variant # "NumericArray"
        \/ /\ children[1].val.variant = "NumericArray"
           /\ \/ children[i].val.value.kind # children[1].val.value.kind
              \/ is_complex(children[i].val) # is_complex(children[1].val)

\* C17: NumericArray::from_nested_matvar returns a construction error when
\* its children differ in element kind or in complex status or are not
\* numeric arrays, in every branch, and never panics.
C17_ConstructionErrors ==
    (pc # "run" /\ result.op = "from_nested_matvar") =>
        /\ result.outcome # "Panic"
        /\ LET claim(children) ==
                   (children # <<>> /\ Inhomogeneous(children)) => result.outcome = "Err"
           IN  claim(ChildrenOf(input[1]))

\* The constructor has panicked on the row vectors [1,2] of f64 and [3,4]
\* of i32.
C17_Witness ==
    /\ pc = "aborted"
    /\ result.op = "from_nested_matvar"
    /\ input = Some(Arr(<<Lit(<<2>>, 0, "F64", FALSE), Lit(<<2>>, 2, "I32", FALSE)>>))

(***************************************************************************)
(* Specification SpecBuild: the explicit builders NumericArray::new and    *)
(* CellArray::new are called with a dimension, a buffer and an optional    *)
(* imaginary buffer (for a cell array, the elements of the buffer as       *)
(* scalars).                                                               *)
(***************************************************************************)
BuildBuffers ==
    {MatlabType(kind, [i \in 1..n |-> IntNum(i)]) : kind \in {"F64", "I32"}, n \in 0..MaxLen}

\* The dimensions handed over with a buffer of n elements: none, [n],
\* [1, n], [n, 1], and one that does not match.
BuildDims(n) == {<<>>, <<n>>, <<1, n>>, <<n, 1>>, <<n + 1>>, <<n + 1, 1>>}

BuildRequests ==
    {[dim |-> dim, value |-> b[1], value_cmp |-> b[2]] :
        dim \in UNION {BuildDims(n) : n \in 0..MaxLen},
        b \in BuildBuffers \X ({None} \cup {Some(c) : c \in BuildBuffers})}

InitBuild ==
    /\ matfile = <<>>
    /\ file = None
    /\ loaded = None
    /\ input \in {Some(req) : req \in BuildRequests}
    /\ var = Null
    /\ result = [op |-> "none"]
    /\ pc = "run"

\* NumericArray::new(dim, value, value_cmp)
NumericArrayNew ==
    /\ pc = "run"
    /\ Constructed("NumericArray_new",
                   NumericArray_new(input[1].dim, input[1].value, input[1].value_cmp))

\* CellArray::new(dim, cells), the cells the elements of the buffer as 1x1
\* arrays.
CellArrayNew ==
    /\ pc = "run"
    /\ Constructed("CellArray_new",
                   CellArray_new(input[1].dim,
                                 [i \in 1..Len(input[1].value.items) |->
                                     NumericArray(<<1, 1>>,
                                                  MatlabType(input[1].value.kind,
                                                             <<input[1].value.items[i]>>),
                                                  None)]))

NextBuild ==
    \/ NumericArrayNew
    \/ CellArrayNew

SpecBuild == InitBuild /\ [][NextBuild]_vars

\* C18: a numeric array or cell array that a builder returned has a
\* dimension vector of length at least 2; an empty or 1-D dimension handed
\* to the builder has become [1, len].
C18_DimsAtLeastTwo ==
    (pc = "built" /\ result.op \in {"NumericArray_new", "CellArray_new"}) =>
        /\ Len(var.dim) >= 2
        /\ Len(input[1].dim) < 2 => var.dim = <<1, Len(input[1].value.items)>>

\* CellArray::new has returned a cell array whose dimension vector has
\* fewer than two components.
C18_Witness ==
    /\ pc = "built"
    /\ result.op = "CellArray_new"
    /\ var.variant = "CellArray"
    /\ Len(var.dim) < 2

\* C19: in a numeric array that a builder returned, an imaginary buffer, if
\* present, has the length and the element kind of the real buffer.
C19_ImaginaryMatchesReal ==
    (pc = "built" /\ result.op = "NumericArray_new" /\ is_some(var.value_cmp)) =>
        /\ Len(var.value_cmp[1].items) = Len(var.value.items)
        /\ var.value_cmp[1].kind = var.value.kind

\* NumericArray::new has returned an array whose imaginary buffer is of
\* another length or kind than the real one.
C19_Witness ==
    /\ pc = "built"
    /\ result.op = "NumericArray_new"
    /\ var.variant = "NumericArray"
    /\ is_some(var.value_cmp)
    /\ \/ Len(var.value_cmp[1].items) # Len(var.value.items)
       \/ var.value_cmp[1].kind # var.value.kind

\* The children are column vectors of the common shape [k, 1], one at least.
ColumnVectors(children, k) ==
    /\ children # <<>>
    /\ \A i \in 1..Len(children) :
          /\ is_ok(children[i])
          /\ children[i].val.variant = "NumericArray"
          /\ children[i].val.dim = <<k, 1>>

\* The buffer is the concatenation of the children's buffers, k elements
\* each, in child order.
Concatenated(buffer, parts, k) ==
    /\ Len(buffer.items) = k * Len(parts)
    /\ \A c \in 1..Len(parts) : \A r \in 1..k :
          buffer.items[(c - 1) * k + r] = parts[c].items[r]

\* The array built from n column vectors [k, 1] has dimension [k, n], its
\* buffers are the concatenations of the children's, and the index (r, c)
\* just used returned element r of child c.
ColumnsAssembled(children, k) ==
    LET n == Len(children)
    IN  /\ var.dim = <<k, n>>
        /\ Concatenated(var.value, [c \in 1..n |-> children[c].val.value], k)
        /\ is_complex(children[1].val) =>
              /\ is_some(var.value_cmp)
              /\ Concatenated(var.value_cmp[1],
                              [c \in 1..n |-> children[c].val.value_cmp[1]], k)
        /\ (/\ result.op = "elem"
            /\ result.index.form = "multi"
            /\ Len(result.index.idx) = 2
            /\ result.index.idx[1] < k
            /\ result.index.idx[2] < n) =>
               /\ result.outcome = "Ok"
               /\ result.val = ElementOfChild(children[result.index.idx[2] + 1].val,
                                              result.index.idx[1])

\* C20: a numeric array built from n column-vector children of common shape
\* [k, 1] has dimension [k, n], and its element (r, c) is element r of
\* child c, in the real part and, for complex children, in the imaginary
\* part: both buffers are the concatenation of the children's buffers.
C20_ColumnVectors ==
    BuiltFromChildren =>
        LET claim(children) ==
                \A k \in 2..MaxDim : ColumnVectors(children, k) => ColumnsAssembled(children, k)
        IN  claim(ChildrenOf(input[1]))

\* The array built from the complex columns [1+101i, 2+102i] and
\* [3+103i, 4+104i] holds the imaginary parts in the order 101, 103, 102,
\* 104.
C20_Witness ==
    /\ pc = "built"
    /\ input = Some(Arr(<<ColumnLeaf(0, TRUE), ColumnLeaf(2, TRUE)>>))
    /\ var.variant = "NumericArray"
    /\ var.dim = <<2, 2>>
    /\ var.value.items = <<IntNum(1), IntNum(2), IntNum(3), IntNum(4)>>
    /\ var.value_cmp = Some(MatlabType("F64", <<IntNum(101), IntNum(103), IntNum(102),
                                                 IntNum(104)>>))

\* The children are numeric arrays of the common shape s, one at least.
ShapedChildren(children, s) ==
    /\ children # <<>>
    /\ \A i \in 1..Len(children) :
          /\ is_ok(children[i])
          /\ children[i].val.variant = "NumericArray"
          /\ children[i].val.dim = s

\* A shape that is neither [1, 1] nor that of a row or a column vector.
HigherShape(s) == ~(Len(s) = 2 /\ (s[1] = 1 \/ s[2] = 1))

\* C21: a numeric array built from n children of a common inner shape s
\* that is neither [1, 1], [1, k] nor [k, 1] has dimension s ++ [n], and its
\* buffers are the concatenation of the children's buffers in child order;
\* so for shapes of three or more entries whose first or second entry is 1.
C21_HigherDimChildren ==
    BuiltFromChildren =>
        LET claim(children) ==
                (ShapedChildren(children, children[1].val.dim)
                    /\ HigherShape(children[1].val.dim))
                    => LET s == children[1].val.dim
                           n == Len(children)
                       IN  /\ var.dim = s \o <<n>>
                           /\ Concatenated(var.value,
                                           [c \in 1..n |-> children[c].val.value], Product(s))
                           /\ is_complex(children[1].val) =>
                                 /\ is_some(var.value_cmp)
                                 /\ Concatenated(var.value_cmp[1],
                                                 [c \in 1..n |-> children[c].val.value_cmp[1]],
                                                 Product(s))
        IN  (input[1].items # <<>>) => claim(ChildrenOf(input[1]))

\* The array built from two children of shape [1, 2, 2] has dimension
\* [2, 4].
C21_Witness ==
    /\ pc = "built"
    /\ input = Some(Arr(<<ShapedLeaf(<<1, 2, 2>>, 0), ShapedLeaf(<<1, 2, 2>>, 4)>>))
    /\ var.variant = "NumericArray"
    /\ var.dim = <<2, 4>>

(***************************************************************************)
(* Specification SpecIter: an iterator over a variable is made and next is *)
(* called on it.  The iterator is the variable and a count.                *)
(***************************************************************************)
MaxCalls == 4

\* Iterator::next of MatVariableIterator: the item returned and the count
\* afterwards, or the panic of the unwrap or of todo!().
MatVariableIterator_next(v, count) ==
    IF v.variant # "NumericArray" THEN Panic("not yet implemented")
    ELSE IF count < type_len(v.value)
    THEN LET item(r) == IF ~is_ok(r) THEN r
                        ELSE IF ~is_some(r.val)
                        THEN Panic("called Option::unwrap() on a None value")
                        ELSE [tag |-> "Ok", val |-> r.val, count |-> count + 1]
         IN  item(NumericArray_get_clone_colmaj(v, count))
    ELSE [tag |-> "Ok", val |-> None, count |-> count + 1]

\* The arrays iterated: row vectors, real and complex, an array the builder
\* returned with an imaginary buffer shorter than the real one; and a cell
\* array.
IterVariables ==
    AccessArrays \cup
    {NumericArray_new(<<1, 2>>, MatlabType("F64", <<IntNum(1), IntNum(2)>>),
                      Some(MatlabType("F64", <<IntNum(101)>>))).val,
     NumericArray_new(<<2, 2>>, MatlabType("F64", <<IntNum(1), IntNum(2), IntNum(3), IntNum(4)>>),
                      None).val,
     CellArray(<<1, 1>>, <<scalar("F64", 1)>>)}

InitIter ==
    /\ matfile = <<>>
    /\ file = None
    /\ loaded = None
    /\ input = None
    /\ var \in IterVariables
    /\ result = [op |-> "none"]
    /\ pc = "built"

\* variable.iter()
Iter ==
    /\ pc = "built"
    /\ result' = [op |-> "iter", count |-> 0, outcome |-> "Ok", item |-> None]
    /\ pc' = "iterating"
    /\ UNCHANGED <<matfile, file, loaded, input, var>>

\* iterator.next()
IterNext ==
    /\ pc = "iterating"
    /\ result.count < MaxCalls
    /\ LET returned(r) ==
               /\ result' = [op |-> "next", outcome |-> r.tag,
                             count |-> IF is_ok(r) THEN r.count ELSE result.count,
                             item |-> IF is_ok(r) THEN r.val ELSE None]
               /\ pc' = IF is_ok(r) THEN "iterating" ELSE "aborted"
       IN  returned(MatVariableIterator_next(var, result.count))
    /\ UNCHANGED <<matfile, file, loaded, input, var>>

NextIter ==
    \/ Iter
    \/ IterNext

SpecIter == InitIter /\ [][NextIter]_vars

\* C22: iterating a numeric array of n elements yields n items, the i-th
\* (from 0) the 1x1 array holding the element at column-major position i,
\* and every later call to next returns None: the call of next that has
\* just been made, the one numbered result.count - 1, returned that.
C22_Iteration ==
    (result.op = "next" /\ var.variant = "NumericArray") =>
        /\ result.outcome = "Ok"
        /\ result.item = IF result.count - 1 < Len(var.value.items)
                         THEN Some(ElementOfChild(var, result.count - 1))
                         ELSE None

\* next has aborted on a numeric array, at a position that the real buffer
\* holds.
C22_Witness ==
    /\ pc = "aborted"
    /\ result.op = "next"
    /\ var.variant = "NumericArray"
    /\ result.count < Len(var.value.items)

(***************************************************************************)
(* SpecFieldNames: a program that builds the field-name table of a list of *)
(* field names.                                                            *)
(***************************************************************************)
MaxTableFields == 3

TableNames == { <<"a">>, <<"a", "b">>, Rep("c", 4), Rep("d", 62), Rep("e", 63),
                Rep("f", 100), <<"U+00E9">> }

TableInputs == UNION {[1..n -> TableNames] : n \in 0..MaxTableFields}

InitFieldNames ==
    /\ matfile = <<>>
    /\ file = None
    /\ loaded = None
    /\ input \in {Some(names) : names \in TableInputs}
    /\ var = Null
    /\ result = [op |-> "none"]
    /\ pc = "run"

\* ArrayFieldNames::new(field_names)
FieldNamesNew ==
    /\ pc = "run"
    /\ result' = [op |-> "fieldnames", table |-> ArrayFieldNames_new(input[1])]
    /\ pc' = "built"
    /\ UNCHANGED <<matfile, file, loaded, input, var>>

NextFieldNames == FieldNamesNew

SpecFieldNames == InitFieldNames /\ [][NextFieldNames]_vars

\* The length in bytes of the longest of the names given.
LongestName == seq_max([i \in 1..Len(input[1]) |-> str_len(input[1][i])])

\* The least stride of a table of n fields.
LeastStride(n) == IF n = 1 THEN 5 ELSE IF n = 2 THEN 3 ELSE 0

Larger(a, b) == IF a > b THEN a ELSE b

Smaller(a, b) == IF a < b THEN a ELSE b

\* The table has the stride L and a name block of L bytes for each field.
TableOfStride(L) ==
    LET table == result.table
        n == Len(input[1])
    IN  /\ table.length = L
        /\ table.data_size = L * n
        /\ Len(table.field_names) = n
        /\ \A i \in 1..n : Len(table.field_names[i]) = L

\* C25 as stated: the stride of the table written for n fields is
\* max(longest name, 5 when n = 1, 3 when n = 2) + 1, capped at 64, and the
\* name block holds L * n bytes.
C25_AsStated ==
    result.op = "fieldnames" =>
        TableOfStride(Smaller(64, Larger(LongestName, LeastStride(Len(input[1]))) + 1))

\* C25: the stride of the table written for n fields is the longest name and
\* its terminating byte, at least 5 when n = 1 and at least 3 when n = 2,
\* capped at 64, and the name block holds L * n bytes, every name taking L.
C25_FieldNameStride ==
    result.op = "fieldnames" =>
        TableOfStride(Smaller(64, Larger(LongestName + 1, LeastStride(Len(input[1])))))

\* One field with a one-letter name was given and the table has stride 5;
\* three names with one of 100 bytes were given and the table has stride 64.
C25_Witness ==
    /\ result.op = "fieldnames"
    /\ \/ input[1] = << <<"a">> >> /\ result.table.length = 5
       \/ Len(input[1]) = 3 /\ LongestName = 100 /\ result.table.length = 64

(***************************************************************************)
(* SpecWire: a program that saves a container of one variable, has the     *)
(* file damaged or not by something else, and loads it.                    *)
(***************************************************************************)
WireName == <<"s">>

WireFields == << <<"a">>, <<"b", "c">> >>

WireLeaves == << scalar("U8", 7), scalar("U8", 9) >>

\* A structure of the first n fields, and the structure arrays of one and
\* of two cells with these fields.
WireStructure(n) ==
    Structure(structure_inserts(<<>>, SubSeq(WireFields, 1, n), SubSeq(WireLeaves, 1, n)))

WireStructureArray(cells, n) ==
    StructureArray_new(<<1, cells>>, SubSeq(WireFields, 1, n),
                       concat([k \in 1..cells |-> SubSeq(WireLeaves, 1, n)])).val

\* The variables saved, in a list: two of them have records of the same
\* number of fields.
WireValues ==
    << scalar("U8", 7), scalar("I16", -300),
       WireStructure(0), WireStructure(1), WireStructure(2),
       WireStructureArray(1, 1), WireStructureArray(1, 2),
       WireStructureArray(2, 1), WireStructureArray(2, 2),
       Structure(structure_inserts(<<>>, << <<"a">> >>, << WireStructure(1) >>)) >>

Damages == {"header", "tag", "stream", "stride", "names"}

\* The element with the damage done to it, inside the compressed stream
\* when the damage is not to the stream itself.
RECURSIVE damaged(_, _)
damaged(e, d) ==
    CASE d = "stream" -> [e EXCEPT !.zlib = [corrupt |-> TRUE]]
      [] e.data_type = "MiCOMPRESSED" ->
            [e EXCEPT !.zlib = zlib_deflate(damaged(zlib_inflate(e.zlib), d))]
      [] d = "tag"    -> [e EXCEPT !.data_type = "MiINT8"]
      [] d = "stride" -> [e EXCEPT !.fieldnames.length = 0]
      [] d = "names"  ->
            [e EXCEPT !.fieldnames.bytes = SubSeq(@, 1, Len(@) - 1), !.value = <<>>]

\* Whether the file of one element can be damaged so.
RECURSIVE can_damage(_, _)
can_damage(e, d) ==
    CASE d \in {"header", "tag"} -> TRUE
      [] d = "stream" -> e.data_type = "MiCOMPRESSED"
      [] e.data_type = "MiCOMPRESSED" -> can_damage(zlib_inflate(e.zlib), d)
      [] OTHER -> "fieldnames" \in DOMAIN e /\ e.fieldnames.bytes # <<>>

InitWire ==
    /\ \E i \in 1..Len(WireValues) : matfile = <<Entry(WireName, WireValues[i])>>
    /\ file = None
    /\ loaded = None
    /\ input = None
    /\ var = Null
    /\ result = [op |-> "none"]
    /\ pc = "run"

\* The saved file is damaged: its header, the tag of its element, the
\* compressed stream, the stride of the field names, or the file is cut
\* inside the names.
Damage(d) ==
    /\ pc = "saved"
    /\ input = None
    /\ file[1].elements # <<>>
    /\ can_damage(file[1].elements[1], d)
    /\ file' = IF d = "header"
               THEN Some([file[1] EXCEPT !.header.matfile_ver = "Invalid"])
               ELSE Some([file[1] EXCEPT !.elements[1] = damaged(@, d)])
    /\ input' = Some(d)
    /\ UNCHANGED <<matfile, loaded, var, result, pc>>

NextWire ==
    \/ \E compress \in BOOLEAN : Save(compress)
    \/ \E d \in Damages : Damage(d)
    \/ Load

SpecWire == InitWire /\ [][NextWire]_vars

\* C23: loading a file that is not well formed (a malformed header, an
\* unexpected tag, a cut payload, a field-name stride of zero, a corrupt
\* compressed stream) returns an error and does not abort the program.
C23_MalformedFileIsError ==
    (result.op = "load" /\ is_some(input)) => loaded[1].tag = "Err"

\* A file whose field names have stride zero was loaded, and one whose
\* compressed stream is corrupt, and the load aborted.
C23_Witness ==
    /\ result.op = "load"
    /\ input \in {Some("stride"), Some("stream")}
    /\ loaded[1].tag = "Panic"

\* The header and the tag: the load of a file damaged there is an error.
HeaderOrTagDamageIsError ==
    (result.op = "load" /\ input \in {Some("header"), Some("tag")})
        => loaded[1].tag = "Err"

\* The load of a file that was not damaged succeeds.
UndamagedFileLoads ==
    (result.op = "load" /\ input = None) => loaded[1].tag = "Ok"

\* The index expressions tried on a variable and on what was loaded of it.
WireIndices ==
    {IndexUsize(0), IndexUsize(1), IndexMulti(<<0, 0>>), IndexMulti(<<0, 1>>),
     IndexName(<<"a">>)}

\* The variable saved and the variable the load returned under its name.
SavedVariable == matfile[1].value

LoadedVariable == matfile_index(loaded[1].val, WireName)

\* The loaded variable has the variant of the saved one and answers every
\* index expression the saved one answers with the same value.
SameVariantAndElements ==
    /\ LoadedVariable.variant = SavedVariable.variant
    /\ \A i \in WireIndices :
           ops_index(SavedVariable, i) # Null
               => ops_index(LoadedVariable, i) = ops_index(SavedVariable, i)

\* C30: saving and then loading preserves the variant of each variable, a
\* structure array of dimension [1, 1] is loaded as a structure array, and
\* every index expression that returned a value that is not Null on the
\* variable before the save returns the same value on the loaded variable.
C30_VariantPreserved ==
    (result.op = "load" /\ input = None /\ loaded[1].tag = "Ok")
        => SameVariantAndElements

\* A structure array of dimension [1, 1] was saved and loaded: it is loaded
\* as a structure, and the index 0 that returned its cell returns Null.
C30_Witness ==
    /\ result.op = "load" /\ input = None /\ loaded[1].tag = "Ok"
    /\ SavedVariable.variant = "StructureArray"
    /\ SavedVariable.dim = <<1, 1>>
    /\ LoadedVariable.variant = "Structure"
    /\ ops_index(SavedVariable, IndexUsize(0)) # Null
    /\ ops_index(LoadedVariable, IndexUsize(0)) = Null

\* Every other variable is loaded with its variant and its elements.
OtherVariantsPreserved ==
    (/\ result.op = "load" /\ input = None /\ loaded[1].tag = "Ok"
     /\ ~(SavedVariable.variant = "StructureArray" /\ Product(SavedVariable.dim) = 1))
        => SameVariantAndElements

(***************************************************************************)
(* SpecStructArray: a program that calls StructureArray::new with a        *)
(* dimension, a list of field names and a list of values.                  *)
(***************************************************************************)
MaxValues == 3

StructArrayDims == {<<>>, <<1>>, <<1, 1>>, <<1, 2>>, <<2, 1>>, <<0, 0>>}

StructArrayNames == {<<>>, << <<"a">> >>, << <<"a">>, <<"b">> >>}

StructArrayRequests ==
    [dim : StructArrayDims, fieldnames : StructArrayNames,
     value : {[i \in 1..n |-> scalar("F64", i)] : n \in 0..MaxValues}]

InitStructArray ==
    /\ matfile = <<>>
    /\ file = None
    /\ loaded = None
    /\ input \in {Some(r) : r \in StructArrayRequests}
    /\ var = Null
    /\ result = [op |-> "none"]
    /\ pc = "run"

\* StructureArray::new(dim, fieldnames, value): it returns, aborts, or is
\* in its loop for ever.
StructureArrayNew ==
    /\ pc = "run"
    /\ LET returned(r) ==
               /\ result' = [op |-> "new", outcome |-> r.tag]
               /\ var' = IF r.tag = "Ok" THEN r.val ELSE Null
               /\ pc' = CASE r.tag = "Panic" -> "aborted"
                          [] r.tag = "Loop"  -> "looping"
                          [] OTHER           -> "built"
       IN  returned(StructureArray_new(input[1].dim, input[1].fieldnames, input[1].value))
    /\ UNCHANGED <<matfile, file, loaded, input>>

NextStructArray == StructureArrayNew

SpecStructArray == InitStructArray /\ [][NextStructArray]_vars

\* C29: StructureArray::new returns a structure array or a construction
\* error for every input, an empty dimension, no field name with some
\* values, and values that are not a multiple of the fields among them; it
\* does not loop for ever and does not abort.
C29_StructureArrayNewTotal ==
    result.op = "new" => result.outcome \in {"Ok", "Err"}

\* The call with an empty dimension, no field name and some values is in
\* its loop for ever; the call with an empty dimension, two field names and
\* one or three values aborted.
C29_Witness ==
    /\ result.op = "new"
    /\ input[1].dim = <<>>
    /\ \/ input[1].fieldnames = <<>> /\ input[1].value # <<>> /\ result.outcome = "Loop"
       \/ Len(input[1].fieldnames) = 2 /\ Len(input[1].value) \in {1, 3}
              /\ result.outcome = "Panic"

\* With a dimension given the call returns: a structure array of as many
\* structures as the dimension has cells, or a construction error.
StructureArrayNewWithDim ==
    (result.op = "new" /\ input[1].dim # <<>>) =>
        \/ result.outcome = "Err"
        \/ /\ result.outcome = "Ok"
           /\ var.fieldnames = input[1].fieldnames
           /\ Len(var.value) * Len(input[1].fieldnames) = Len(input[1].value)

\* The imaginary part of the dense array at row i and column j, from 0.
DenseImagAt(i, j) == input[1].value_cmp[1].items[i + j * input[1].dim[1] + 1]

\* C28: to_sparse of a complex 2-D f64 array yields a sparse array that
\* reports complex status, whose stored entries carry next to the real
\* values the imaginary parts found at the same positions, and whose stored
\* and unstored positions return elements of the same complex status.
C28_ComplexToSparse ==
    (Converted /\ input[1].value.kind = "F64" /\ is_complex(input[1])) =>
        /\ is_complex(var)
        /\ type_len(var.value_cmp[1]) = type_len(var.value)
        /\ \A i \in 0..(input[1].dim[1] - 1), j \in 0..(input[1].dim[2] - 1) :
               \A f \in StoredAt(i, j) : var.value_cmp[1].items[f + 1] = DenseImagAt(i, j)
        /\ is_complex(var.null_type) = is_complex(var)

\* A complex f64 array with an element that is not zero was converted: the
\* sparse array has a stored entry and no imaginary part, and the element
\* of its unstored positions is complex.
C28_Witness ==
    /\ Converted
    /\ input[1].value.kind = "F64"
    /\ is_complex(input[1])
    /\ type_len(var.value) > 0
    /\ ~is_complex(var)
    /\ is_complex(var.null_type)

\* The conversion of a real f64 array: the sparse array is real, and so is
\* the element of its unstored positions.
RealToSparse ==
    (Converted /\ input[1].value.kind = "F64" /\ ~is_complex(input[1])) =>
        ~is_complex(var) /\ ~is_complex(var.null_type)

(***************************************************************************)
(* SpecSink: a program that saves a container to a sink that fails at some *)
(* stage of the save, or at none.                                          *)
(***************************************************************************)
SinkValues == {scalar("F64", 1), scalar("U8", 7), Unsupported, WireStructure(1)}

SinkNames == << <<"a">>, <<"b">> >>

SinkContainers ==
    UNION { { [i \in 1..n |-> Entry(SinkNames[i], f[i])] : f \in [1..n -> SinkValues] } :
            n \in 0..Len(SinkNames) }

Stages == {"none", "create", "header", "variable", "flush"}

InitSink ==
    /\ matfile \in SinkContainers
    /\ file = None
    /\ loaded = None
    /\ input = None
    /\ var = Null
    /\ result = [op |-> "none"]
    /\ pc = "run"

\* save_matfile_v7(path, m.clone(), compress) on a sink that fails at the
\* stage, a write of a variable failing only when there is one.
SaveOn(fails, compress) ==
    /\ pc = "run"
    /\ fails = "variable" => matfile # <<>>
    /\ LET returned(r) ==
               /\ file' = r.file
               /\ result' = [op |-> "save", compress |-> compress, fails |-> fails,
                             outcome |-> r.ret.tag]
               /\ pc' = IF r.ret.tag = "Panic" THEN "aborted" ELSE "saved"
       IN  returned(save_matfile_v7_on(fails, matfile, compress))
    /\ UNCHANGED <<matfile, loaded, input, var>>

NextSink == \E fails \in Stages, compress \in BOOLEAN : SaveOn(fails, compress)

SpecSink == InitSink /\ [][NextSink]_vars

\* The file the save of the container leaves on a sink that does not fail.
WholeFile == save_matfile_v7(matfile, result.compress).file

\* C24: save returns an error whenever the write of the header, the write
\* of a variable (its compression included) or the flush of the sink fails,
\* and returns success only if every byte of the file was written.
C24_SaveReportsFailure ==
    result.op = "save" =>
        /\ result.fails # "none" => result.outcome = "Err"
        /\ result.outcome = "Ok" => file = WholeFile

\* The write of a variable failed, the save returned success and the file
\* is not the whole file.
C24_Witness ==
    /\ result.op = "save"
    /\ result.fails = "variable"
    /\ result.outcome = "Ok"
    /\ file # WholeFile

\* The save on a sink that does not fail leaves the whole file, and the
\* save that cannot create its file returns an error.
SaveOnSoundSink ==
    result.op = "save" =>
        /\ result.fails = "none" => file = WholeFile
        /\ result.fails = "create" => result.outcome = "Err" /\ file = None

(***************************************************************************)
(* The bytes a written element takes in the file after its data type and   *)
(* byte count, by the layout of the derived BinWrite: pad_size_to gives a  *)
(* field at least its size, align_after moves on to the next multiple of   *)
(* 8 of the position, and the element starts at a multiple of 8.           *)
(***************************************************************************)
align_after(m, pos) == ((pos + m - 1) \div m) * m

pad_size_to(m, size) == IF size < m THEN m ELSE size

\* ArrayDimensionsNormal and ArrayDimensionsSmall as written
ArrayDimensions_bytes(d) ==
    IF d.form = "Normal" THEN 2 + 2 + 4 + 4 * Len(d.dim) ELSE 2 + 2 + 4 * Len(d.dim)

\* ArrayNameEmpty, ArrayNameNormal and ArrayNameSmall as written
ArrayName_bytes(n) ==
    CASE n.form = "Empty"  -> 8
      [] n.form = "Normal" -> 2 + 2 + 4 + pad_size_to(8, str_len(n.chars))
      [] n.form = "Small"  -> 2 + 2 + pad_size_to(4, str_len(n.chars))

\* ArrayDataNormal and ArrayDataSmall as written (and those of a sparse
\* array), the items by write_array_data
ArrayData_bytes(b) ==
    IF b.framing = "DataNormal" THEN 2 + 2 + 4 + b.width * Len(b.items)
    ELSE 2 + 2 + pad_size_to(4, b.width * Len(b.items))

\* The position in the file, from the start of the element, after the
\* fields of a written element of NumericArray7 or SparseArray7.
end_of_element(e) ==
    LET header == 4 + 4
        props == header + 16
        dimensions == align_after(8, props + ArrayDimensions_bytes(e.dimensions))
        name == align_after(8, dimensions + ArrayName_bytes(e.name))
        ir == IF "ir" \in DOMAIN e
              THEN align_after(8, name + ArrayDimensions_bytes(e.ir)) ELSE name
        jc == IF "jc" \in DOMAIN e
              THEN align_after(8, ir + ArrayDimensions_bytes(e.jc)) ELSE ir
        value == align_after(8, jc + ArrayData_bytes(e.value))
    IN  IF is_some(e.value_cmp)
        THEN align_after(8, value + ArrayData_bytes(e.value_cmp[1]))
        ELSE value

(***************************************************************************)
(* SpecBytes: a program that writes one numeric or sparse variable under a *)
(* name.                                                                   *)
(***************************************************************************)
BytesNames == {<<"a">>, <<"a", "l", "p", "h", "a">>}

\* The sparse arrays written: those converted from the dense arrays, and
\* complex ones of one stored entry and of none.
BytesSparse ==
    {to_sparse(a).val[1] :
        a \in {d \in MaskedArrays : d.value.kind \in {"F64", "BOOL"} /\ ~is_complex(d)}}
    \cup {SparseArray_new(<<1, 1>>, <<0>>, <<0, 1>>, TRUE, MatlabType("F64", <<IntNum(1)>>),
                          Some(MatlabType("F64", <<NumOf(0, 0, 1)>>))).val,
          SparseArray_new(<<1, 1>>, <<>>, <<0, 0>>, TRUE, MatlabType("F64", <<>>),
                          Some(MatlabType("F64", <<>>))).val}

BytesVariables == IOArrays \cup BytesSparse

InitBytes ==
    /\ matfile = <<>>
    /\ file = None
    /\ loaded = None
    /\ input \in {Some(v) : v \in BytesVariables}
    /\ var = Null
    /\ result = [op |-> "none"]
    /\ pc = "run"

\* MatVariable7::from(variable), set_name(name) and the write of the element
Write(name) ==
    /\ pc = "run"
    /\ LET written(r) ==
               /\ result' = IF is_ok(r)
                            THEN [op |-> "write", outcome |-> r.tag,
                                  element |-> MatVariable7_write(set_name(r.val, name))]
                            ELSE [op |-> "write", outcome |-> r.tag]
               /\ pc' = IF is_ok(r) THEN "written" ELSE "aborted"
       IN  written(MatVariable7_from(input[1]))
    /\ UNCHANGED <<matfile, file, loaded, input, var>>

NextBytes == \E name \in BytesNames : Write(name)

SpecBytes == InitBytes /\ [][NextBytes]_vars

\* The bytes emitted after the 8 bytes of the data type and the byte count.
Emitted == end_of_element(result.element) - 8

\* C26: for every numeric and every sparse variable written, the byte count
\* of the matrix element equals the number of bytes emitted after its 8-byte
\* header, also for complex arrays whose real and imaginary blocks have
\* different wire types or framings, and for sparse arrays with no stored
\* entry.
C26_ByteCount ==
    (result.op = "write" /\ result.outcome = "Ok") => result.element.num_bytes = Emitted

\* A complex f64 array of real part 1 (a block of u8 in the small framing)
\* and imaginary part 0.5 (a block of doubles in the normal framing) was
\* written, and the byte count is 8 less than the bytes emitted.
C26_Witness ==
    /\ result.op = "write" /\ result.outcome = "Ok"
    /\ input[1].variant = "NumericArray"
    /\ is_complex(input[1])
    /\ is_some(result.element.value_cmp)
    /\ result.element.value.framing = "DataSmall"
    /\ result.element.value_cmp[1].framing = "DataNormal"
    /\ result.element.num_bytes + 8 = Emitted

\* The real and the imaginary block of the written element take the same
\* number of bytes, or there is no imaginary block.
BlocksOfOneSize ==
    is_some(result.element.value_cmp) =>
        align_after(8, ArrayData_bytes(result.element.value))
            = align_after(8, ArrayData_bytes(result.element.value_cmp[1]))

\* The byte count is right for the numeric arrays whose blocks have one
\* size, and for the sparse arrays that have a stored entry or no cell.
ByteCountOfOtherArrays ==
    (/\ result.op = "write" /\ result.outcome = "Ok"
     /\ BlocksOfOneSize
     /\ input[1].variant = "SparseArray" =>
            (input[1].ir # <<>> \/ Product(input[1].dim) = 0))
        => result.element.num_bytes = Emitted

(***************************************************************************)
(* SpecResave: a program that loads a well-formed file, saves the          *)
(* container it got and loads the saved file.  The files are those save    *)
(* writes for one array, and files of another producer with an opaque      *)
(* object, a function handle or a char array stored as UTF-16, compressed  *)
(* or not.                                                                 *)
(***************************************************************************)
ResaveName == <<"a">>

\* The element inside an object: a u8 scalar without a name.
ObjectPayload == MatVariable7_write(NumericArray7_new("u8", <<1, 1>>, <<IntNum(200)>>, None))

\* An opaque (MCOS) object on the wire.
OpaqueElement ==
    [data_type |-> "MiMATRIX",
     num_bytes |-> 0,
     props     |-> ArrayProps_new("MxOPAQUECLASS", ArrayFlagBits_new(FALSE, FALSE, FALSE), 0),
     name      |-> ArrayName_new(ResaveName),
     type_name |-> ArrayName_new(<<"M", "C", "O", "S">>),
     var       |-> ObjectPayload]

\* A function handle on the wire.
HandleElement ==
    [data_type  |-> "MiMATRIX",
     num_bytes  |-> 0,
     props      |-> ArrayProps_new("MxHANDLECLASS", ArrayFlagBits_new(FALSE, FALSE, FALSE), 0),
     dimensions |-> ArrayDimensions_new(<<1, 1>>),
     name       |-> ArrayName_new(ResaveName),
     var        |-> ObjectPayload]

\* A char row vector on the wire whose payload is stored as UTF-16.
Utf16Element(units) ==
    [MatVariable7_write(set_name(NumericArray7_new("char", <<1, Len(units)>>, units, None),
                                 ResaveName))
        EXCEPT !.value = [framing   |-> framing_of(2 * Len(units) > 4),
                          data_type |-> "MiUTF16",
                          data_size |-> 2 * Len(units),
                          width     |-> 2,
                          items     |-> units]]

ForeignElements ==
    <<OpaqueElement, HandleElement,
      Utf16Element(<<IntNum(104)>>),
      Utf16Element(<<IntNum(104), IntNum(8364)>>),
      Utf16Element(<<IntNum(104), IntNum(105), IntNum(33)>>)>>

\* The file of one element, the element deflated or as it is.
FileOf(element, deflated) ==
    Some([header   |-> MatFileHeader_new("V7"),
          elements |-> <<IF deflated
                         THEN [data_type |-> "MiCOMPRESSED", zlib |-> zlib_deflate(element)]
                         ELSE element>>])

InitResave ==
    /\ matfile = <<>>
    /\ \/ \E a \in IOArrays, compress \in BOOLEAN :
              LET saved(r) == is_ok(r.ret) /\ file = r.file
              IN  saved(save_matfile_v7(<<Entry(ResaveName, a)>>, compress))
       \/ \E i \in 1..Len(ForeignElements), deflated \in BOOLEAN :
              file = FileOf(ForeignElements[i], deflated)
    /\ loaded = None
    /\ input = None
    /\ var = Null
    /\ result = [op |-> "none"]
    /\ pc = "start"

\* let m = load_matfile(path)?
Open ==
    /\ pc = "start"
    /\ LET returned(r) ==
               /\ matfile' = IF is_ok(r) THEN r.val ELSE matfile
               /\ result' = [op |-> "open", outcome |-> r.tag]
               /\ pc' = IF is_ok(r) THEN "run" ELSE "aborted"
       IN  returned(load_matfile(file))
    /\ UNCHANGED <<file, loaded, input, var>>

NextResave ==
    \/ Open
    \/ \E compress \in BOOLEAN : Save(compress)
    \/ Load

SpecResave == InitResave /\ [][NextResave]_vars

\* Equal variables: the same variant, and for arrays the same dimensions,
\* element kind, complex status and elements.
EqualVariable(u, v) ==
    /\ u.variant = v.variant
    /\ u.variant = "NumericArray" => SameVariable(u, v)

EqualContainer(c, d) ==
    /\ Len(d) = Len(c)
    /\ \A i \in 1..Len(c) : d[i].name = c[i].name /\ EqualVariable(c[i].value, d[i].value)

\* The first load succeeded: the container is the one load returned.
Opened == pc \in {"run", "saved", "loaded"} \/ (pc = "aborted" /\ result.op # "open")

\* C27: every container returned by a successful load can be saved, and
\* loading the saved file succeeds and yields a container equal to the first
\* one, also when the container holds an unsupported variable or a char array
\* decoded from UTF-16.
C27_ResaveRoundTrip ==
    /\ (Opened /\ result.op = "save") => result.outcome = "Ok"
    /\ (Opened /\ result.op = "load") =>
           /\ loaded[1].tag = "Ok"
           /\ EqualContainer(matfile, loaded[1].val)

\* The container loaded from the file of an opaque object or of a function
\* handle was saved, and the load of the saved file ended in a panic.
C27_Witness ==
    /\ Opened
    /\ result.op = "load"
    /\ Len(matfile) = 1
    /\ matfile[1].value.variant = "Unsupported"
    /\ result.outcome = "Panic"

\* The save of a container holding a char array decoded from UTF-16 ends in
\* a panic.
Utf16SaveAborts ==
    (/\ Opened
     /\ result.op = "save"
     /\ Len(matfile) = 1
     /\ matfile[1].value.variant = "NumericArray"
     /\ matfile[1].value.value.kind = "UTF16") => result.outcome = "Panic"

\* A container was loaded from a file whose char payload is UTF-16.
Utf16Loaded ==
    /\ pc = "run"
    /\ Len(matfile) = 1
    /\ matfile[1].value.variant = "NumericArray"
    /\ matfile[1].value.value.kind = "UTF16"

\* The containers of the other loaded arrays are saved, and the load of the
\* saved file yields them again.
ResaveOfOtherArrays ==
    (/\ Opened
     /\ Len(matfile) = 1
     /\ matfile[1].value.variant = "NumericArray"
     /\ matfile[1].value.value.kind # "UTF16") => C27_ResaveRoundTrip
====
